---- MODULE Spec2Model ----
(***************************************************************************)
(* Model of the deobfuscation pipeline of src/app/lib/deobfuscator.ts.     *)
(*                                                                         *)
(* Source text and syntax trees are modelled structurally:                 *)
(*   - a text is [fmt, sa, items, names]; a tree is [sa, items, names];    *)
(*     parse drops the formatting (fmt), generate prints the canonical     *)
(*     format "gen", so generate(parse(t)) differs from a hand-written t;  *)
(*   - sa holds the string-array idiom: function declarations, immediately *)
(*     invoked function expressions, alias declarators and call sites;     *)
(*   - items holds the idioms the loop matchers rewrite.  An item is a     *)
(*     stack of layers; the top layer is the rewrite that applies now and  *)
(*     the layer under it is the rewrite the first one exposes;            *)
(*   - names is the number of bindings named under the obfuscator          *)
(*     convention, each under a name of its own.                           *)
(***************************************************************************)
EXTENDS Integers, Sequences, FiniteSets, TLC

VARIABLES
    options,            \* the Configuration passed to deobfuscate
    source,             \* the source text passed to deobfuscate
    code,               \* let code (deobfuscator.ts:48)
    transformsApplied,  \* deobfuscator.ts:46, the returned list once pc = "done"
    errors,             \* deobfuscator.ts:47
    changed,            \* deobfuscator.ts:68
    passes,             \* deobfuscator.ts:69
    stringResult,       \* const stringResult (deobfuscator.ts:54)
    trace,              \* the calls deobfuscate has made so far, in order
    pc,                 \* position inside deobfuscate
    rsIn,               \* resolveStringArrays called on its own: the argument
    rsOut,              \* resolveStringArrays called on its own: the result
    mIn,                \* a matcher or the renamer called on its own: the tree
    mOut,               \* a matcher or the renamer called on its own: the result
    run,                \* deobfuscate called again on its own output: the call number
    first,              \* deobfuscate called again: what the first call returned
    ui                  \* the page: the state of Home and its runs of handleProcess

vars == <<options, source, code, transformsApplied, errors, changed, passes,
          stringResult, trace, pc, rsIn, rsOut, mIn, mOut, run, first, ui>>

----------------------------------------------------------------------------
\* Bounds of the model

\* depth of the deepest chain of dependent rewrites in the inputs
MaxChain == 11
\* number of obfuscator-named bindings in the inputs that have any
MaxNames == 2
\* number of decoder call sites in a generated string-array program
MaxCalls == 2

\* const maxPasses = 10 (deobfuscator.ts:70)
maxPasses == 10
\* arrPath.node.elements.length > 5 (deobfuscator.ts:203)
TableThreshold == 5

----------------------------------------------------------------------------
\* Small helpers

Range(s) == {s[i] : i \in DOMAIN s}

RECURSIVE Repeat(_, _)
Repeat(x, n) == IF n <= 0 THEN <<>> ELSE <<x>> \o Repeat(x, n - 1)

RECURSIVE SelectIdx(_, _, _)
\* the indices i of 1..n, ascending, for which keep[i]
SelectIdx(keep, i, n) ==
    IF i > n THEN <<>>
    ELSE (IF keep[i] THEN <<i>> ELSE <<>>) \o SelectIdx(keep, i + 1, n)

RECURSIVE FlatCat(_)
FlatCat(ss) == IF ss = <<>> THEN <<>> ELSE Head(ss) \o FlatCat(Tail(ss))

\* a transformsApplied entry: the template string and the count it embeds
T(kind, n) == [kind |-> kind, n |-> n]
\* an errors entry: the prefix and, for a parse error, the pass number
Err(kind, pass) == [kind |-> kind, pass |-> pass]
\* a call made by deobfuscate: the phase and pass it was made in, whether it
\* threw, the count it returned (0 for parse and generate) and, for the
\* generate of a pass, whether its text equals the text the pass started with
Ev(phase, pass, op, threw, count, same) ==
    [phase |-> phase, pass |-> pass, op |-> op, threw |-> threw, count |-> count, same |-> same]

----------------------------------------------------------------------------
\* The Syntax Tree Provider: parser.parse and generate

Layers == {"simpl", "proxy", "proxyX", "dead", "cff", "obj", "hex", "hexS", "syntaxErr"}

TopOf(item) == IF item = <<>> THEN "none" ELSE item[1]

\* parser.parse throws on a text it cannot recover from
parse(text) ==
    [threw |-> \E i \in DOMAIN text.items : TopOf(text.items[i]) = "syntaxErr",
     ast   |-> [sa |-> text.sa, items |-> text.items, names |-> text.names]]

\* generate(ast, {comments: false, compact: false}).code
generate(ast) ==
    [fmt |-> "gen", sa |-> ast.sa, items |-> ast.items, names |-> ast.names]

----------------------------------------------------------------------------
\* The string-array idiom (the sa part of a text or tree)
\*   funcs   : function declarations, in source order
\*             [name, table, mentions, ret, uses]
\*               table    the elements of the literal string array in the body
\*               mentions the names that occur in the declaration's source text
\*               ret      what a call of it returns when evaluated: "index" the
\*                        entry of the table of the provider `uses` at its first
\*                        argument, "strict" the same but it throws when there
\*                        is no such entry, "num" a number, "throw" it throws
\*   iifes   : expression statements that call a function expression
\*             [mentions, push, shift, rot, target]: the source text contains
\*             the names `mentions` and the words push / shift; evaluated, it
\*             rotates the table of provider `target` by rot places
\*   aliases : variable declarators  id = init  whose init is an identifier
\*   calls   : call expressions with an identifier callee [callee, args, done, val]
\*             done: the node has been replaced by the string literal val

NoRotation == 0

\* one  arr.push(arr.shift())
RotateOnce(t) == IF t = <<>> THEN t ELSE Tail(t) \o <<Head(t)>>

RECURSIVE Rotate(_, _)
Rotate(t, n) == IF n <= 0 THEN t ELSE Rotate(RotateOnce(t), n - 1)

\* deobfuscator.ts:203, every element of the model's tables is a string literal
hasLargeStringArray(f) == Len(f.table) > TableThreshold

\* deobfuscator.ts:195-211, the indices of the array-provider declarations
stringArrayFuncs(ast) ==
    SelectIdx([i \in DOMAIN ast.funcs |-> hasLargeStringArray(ast.funcs[i])],
              1, Len(ast.funcs))

\* deobfuscator.ts:215-220, the decoder candidates of one provider
DecodersOf(ast, arrName) ==
    LET keep == [j \in DOMAIN ast.funcs |->
                    /\ ast.funcs[j].name # arrName
                    /\ arrName \in ast.funcs[j].mentions]
        idx  == SelectIdx(keep, 1, Len(ast.funcs))
    IN [k \in DOMAIN idx |-> [idx |-> idx[k], arrayFuncName |-> arrName]]

\* deobfuscator.ts:221-229, the rotation candidates of one provider
RotationsOf(ast, arrName) ==
    SelectIdx([j \in DOMAIN ast.iifes |->
                  /\ arrName \in ast.iifes[j].mentions
                  /\ ast.iifes[j].push
                  /\ ast.iifes[j].shift],
              1, Len(ast.iifes))

\* deobfuscator.ts:213-231
decoderFuncs(ast) ==
    LET saf == stringArrayFuncs(ast)
    IN FlatCat([k \in DOMAIN saf |-> DecodersOf(ast, ast.funcs[saf[k]].name)])

rotationIIFEs(ast) ==
    LET saf == stringArrayFuncs(ast)
    IN FlatCat([k \in DOMAIN saf |-> RotationsOf(ast, ast.funcs[saf[k]].name)])

\* stringArrayFuncs.find(f => f.name === decoder.arrayFuncName), deobfuscator.ts:234
FindArrFunc(ast, arrName) ==
    LET saf == stringArrayFuncs(ast)
        hit == {k \in DOMAIN saf : ast.funcs[saf[k]].name = arrName}
    IN IF hit = {} THEN 0
       ELSE saf[CHOOSE k \in hit : \A m \in hit : k <= m]

\* rotationIIFEs.find(r => r.source.includes(arrFunc.name)), deobfuscator.ts:237
FindRotation(ast, arrName) ==
    LET rots == rotationIIFEs(ast)
        hit  == {k \in DOMAIN rots : arrName \in ast.iifes[rots[k]].mentions}
    IN IF hit = {} THEN NoRotation
       ELSE rots[CHOOSE k \in hit : \A m \in hit : k <= m]

RECURSIVE AliasScan(_, _, _, _)
\* deobfuscator.ts:240-247: one traversal of the declarators still in the tree
AliasScan(aliases, gone, i, names) ==
    IF i > Len(aliases) THEN names
    ELSE AliasScan(aliases, gone, i + 1,
            IF i \notin gone /\ aliases[i].init \in names
            THEN names \cup {aliases[i].id} ELSE names)

\* decoderNames without the aliases
decoderNames_noAlias(ast, st, decName) == {decName}

decoderNames(ast, st, decName) == AliasScan(ast.aliases, st.goneA, 1, {decName})

\* ArgValue without the test of the argument's shape: any other expression
\* is passed to the fragment as 0
ArgValue_anyShape(arg) ==
    CASE arg.t = "neg" -> [ok |-> TRUE, v |-> 0 - arg.v]
      [] OTHER         -> [ok |-> TRUE, v |-> arg.v]

\* deobfuscator.ts:259-264, one argument: its value, or not a literal
ArgValue(arg) ==
    CASE arg.t = "num" -> [ok |-> TRUE,  v |-> arg.v]
      [] arg.t = "str" -> [ok |-> TRUE,  v |-> arg.v]
      [] arg.t = "neg" -> [ok |-> TRUE,  v |-> 0 - arg.v]
      [] OTHER         -> [ok |-> FALSE, v |-> 0]

\* deobfuscator.ts:238 and 268-269: new Function(executionCode + return dec(args))()
\* executionCode is the provider's source, the rotation's source if one was
\* found (rots, empty or one fragment), and the decoder's source; nothing else
\* of the program is in scope.
Eval(arrFunc, rots, decoder, argv) ==
    LET rotFails == rots # <<>> /\ rots[1].target # arrFunc.name
        table    == IF rots = <<>> THEN arrFunc.table
                    ELSE Rotate(arrFunc.table, rots[1].rot)
        idx      == IF argv = <<>> THEN 0 - 1
                    ELSE IF decoder.ret = "negate" THEN 0 - argv[1] ELSE argv[1]
        inRange  == idx >= 0 /\ idx < Len(table)
        decFails == \/ decoder.ret = "throw"
                    \/ decoder.ret \in {"index", "strict", "negate"} /\ decoder.uses # arrFunc.name
                    \/ decoder.ret = "strict" /\ ~inRange
    IN IF rotFails \/ decFails THEN [threw |-> TRUE, isString |-> FALSE, val |-> ""]
       ELSE IF decoder.ret \in {"index", "strict", "negate"} /\ inRange
            THEN [threw |-> FALSE, isString |-> TRUE, val |-> table[idx + 1]]
            ELSE [threw |-> FALSE, isString |-> FALSE, val |-> ""]

\* deobfuscator.ts:258-275, one collected call site
ResolveCall(ast, st, arrFunc, rot, decoder, i) ==
    LET call == st.calls[i]
        av   == [k \in DOMAIN call.args |-> ArgValue(call.args[k])]
    IN IF \E k \in DOMAIN av : ~av[k].ok THEN st
       ELSE LET r == Eval(arrFunc, rot, decoder, [k \in DOMAIN av |-> av[k].v])
            IN IF ~r.threw /\ r.isString
               THEN [st EXCEPT !.calls[i] = [call EXCEPT !.done = TRUE, !.val = r.val],
                               !.replacements = @ + 1]
               ELSE st

RECURSIVE ResolveCalls_stopAtFailure(_, _, _, _, _, _, _)
\* ResolveCalls without the try / catch around each evaluation: the first
\* call that is evaluated and not replaced ends the loop over the calls
ResolveCalls_stopAtFailure(ast, st, arrFunc, rot, decoder, names, i) ==
    IF i > Len(st.calls) THEN st
    ELSE IF ~st.calls[i].done /\ st.calls[i].callee \in names
    THEN LET st1 == ResolveCall(ast, st, arrFunc, rot, decoder, i)
             evaluated == \A k \in DOMAIN st.calls[i].args : ArgValue(st.calls[i].args[k]).ok
         IN IF evaluated /\ st1 = st THEN st
            ELSE ResolveCalls_stopAtFailure(ast, st1, arrFunc, rot, decoder, names, i + 1)
    ELSE ResolveCalls_stopAtFailure(ast, st, arrFunc, rot, decoder, names, i + 1)

RECURSIVE ResolveCalls(_, _, _, _, _, _, _)
\* deobfuscator.ts:249-275: the calls whose callee is in the alias set
ResolveCalls(ast, st, arrFunc, rot, decoder, names, i) ==
    IF i > Len(st.calls) THEN st
    ELSE ResolveCalls(ast,
            IF ~st.calls[i].done /\ st.calls[i].callee \in names
            THEN ResolveCall(ast, st, arrFunc, rot, decoder, i) ELSE st,
            arrFunc, rot, decoder, names, i + 1)

\* try { path.remove(); removedNodes++ } catch {}: removing a path that is
\* already removed throws, so the count is not incremented
RemoveFunc(st, i) ==
    IF i \in st.goneF THEN st
    ELSE [st EXCEPT !.goneF = @ \cup {i}, !.removedNodes = @ + 1]

RemoveIIFE(st, i) ==
    IF i = NoRotation \/ i \in st.goneI THEN st
    ELSE [st EXCEPT !.goneI = @ \cup {i}, !.removedNodes = @ + 1]

RECURSIVE RemoveAliases(_, _, _, _)
\* deobfuscator.ts:280-291
RemoveAliases(ast, st, names, i) ==
    IF i > Len(ast.aliases) THEN st
    ELSE RemoveAliases(ast,
            IF i \notin st.goneA /\ ast.aliases[i].id \in names
            THEN [st EXCEPT !.goneA = @ \cup {i}, !.removedNodes = @ + 1] ELSE st,
            names, i + 1)

\* deobfuscator.ts:277-291
RemoveInfrastructure(ast, st, a, r, d, names) ==
    RemoveAliases(ast, RemoveFunc(RemoveIIFE(RemoveFunc(st, a), r), d), names, 1)

\* deobfuscator.ts:233-292, the body of the loop for one decoder
ResolvePair(ast, st, dec) ==
    LET a == FindArrFunc(ast, dec.arrayFuncName)
    IN IF a = 0 THEN st
       ELSE LET r     == FindRotation(ast, ast.funcs[a].name)
                rot   == IF r = NoRotation THEN <<>> ELSE <<ast.iifes[r]>>
                names == decoderNames(ast, st, ast.funcs[dec.idx].name)
                st1   == ResolveCalls(ast, st, ast.funcs[a], rot,
                                      ast.funcs[dec.idx], names, 1)
            IN RemoveInfrastructure(ast, st1, a, r, dec.idx, names)

RECURSIVE ResolvePairs(_, _, _, _)
ResolvePairs(ast, st, decs, k) ==
    IF k > Len(decs) THEN st
    ELSE ResolvePairs(ast, ResolvePair(ast, st, decs[k]), decs, k + 1)

Keep(s, gone) == LET idx == SelectIdx([i \in DOMAIN s |-> i \notin gone], 1, Len(s))
                 IN [k \in DOMAIN idx |-> s[idx[k]]]

\* the tree after the removals and replacements recorded in st
Rewritten(ast, st) ==
    [ast EXCEPT !.sa = [funcs   |-> Keep(ast.sa.funcs, st.goneF),
                        iifes   |-> Keep(ast.sa.iifes, st.goneI),
                        aliases |-> Keep(ast.sa.aliases, st.goneA),
                        calls   |-> st.calls]]

\* deobfuscator.ts:181-296
resolveStringArrays(sourceCode) ==
    LET p == parse(sourceCode)
    IN IF p.threw
       THEN [threw |-> TRUE, code |-> sourceCode, replacements |-> 0, removedNodes |-> 0]
       ELSE LET st0 == [goneF |-> {}, goneI |-> {}, goneA |-> {},
                        calls |-> p.ast.sa.calls,
                        replacements |-> 0, removedNodes |-> 0]
                st  == ResolvePairs(p.ast.sa, st0, decoderFuncs(p.ast.sa), 1)
            IN [threw |-> FALSE,
                code |-> generate(Rewritten(p.ast, st)),
                replacements |-> st.replacements,
                removedNodes |-> st.removedNodes]

----------------------------------------------------------------------------
\* The loop matchers and the renamer, on the items / names part of a tree.
\* A matcher rewrites every item whose top layer is its idiom (one layer per
\* item and call: the rewrite it exposes is found by a later matcher or pass)
\* and returns the number of rewrites; threw is an exception it raises.

CountTop(ast, layer) == Cardinality({i \in DOMAIN ast.items : TopOf(ast.items[i]) = layer})

Peel(ast, layer) ==
    [ast EXCEPT !.items = [i \in DOMAIN ast.items |->
        IF TopOf(ast.items[i]) = layer THEN Tail(ast.items[i]) ELSE ast.items[i]]]

Rewrote(ast, layer) == [threw |-> FALSE, ast |-> Peel(ast, layer), count |-> CountTop(ast, layer)]

\* the arguments of the call sites of sa that are a binary expression of two
\* numeric literals ("sum", v its value), as <<call, argument>>
FoldableArgs(calls) ==
    UNION {{<<i, k>> : k \in {k \in DOMAIN calls[i].args : calls[i].args[k].t = "sum"}} :
              i \in {i \in DOMAIN calls : ~calls[i].done}}

\* deobfuscator.ts:384-418; the BinaryExpression visitor (lines 399-409) also
\* folds such an argument of a decoder call into a numeric literal
simplifyExpressions(ast) ==
    LET r == Rewrote(ast, "simpl")
        fold(c) == [c EXCEPT !.args = [k \in DOMAIN c.args |->
                        IF c.args[k].t = "sum" THEN [t |-> "num", v |-> c.args[k].v]
                        ELSE c.args[k]]]
    IN [threw |-> FALSE,
        ast   |-> [r.ast EXCEPT !.sa.calls = [i \in DOMAIN ast.sa.calls |->
                        IF ast.sa.calls[i].done THEN ast.sa.calls[i]
                        ELSE fold(ast.sa.calls[i])]],
        count |-> r.count + Cardinality(FoldableArgs(ast.sa.calls))]

\* deobfuscator.ts:298-355.  "proxyX" is a proxy call with a spread argument:
\* t.binaryExpression (line 336) rejects a SpreadElement operand and throws.
replaceProxyFunctions(ast) ==
    IF CountTop(ast, "proxyX") > 0
    THEN [threw |-> TRUE, ast |-> ast, count |-> 0]
    ELSE Rewrote(ast, "proxy")

\* deobfuscator.ts:357-382
removeDeadCode(ast) == Rewrote(ast, "dead")

\* deobfuscator.ts:420-442
undoControlFlowFlattening(ast) == Rewrote(ast, "cff")

\* deobfuscator.ts:444-455
simplifyObjectAccess(ast) == Rewrote(ast, "obj")

\* deobfuscator.ts:457-467.  "hex" is an escape of a printable character, which
\* generate prints as the character; "hexS" an escape generate prints as an
\* escape again: it is counted on every pass and the text does not change.
decodeHexUnicode(ast) ==
    [threw |-> FALSE, ast |-> Peel(ast, "hex"),
     count |-> CountTop(ast, "hex") + CountTop(ast, "hexS")]

\* deobfuscator.ts:469-486: every obfuscator-named binding is renamed once
renameHexVariables(ast) ==
    [threw |-> FALSE, ast |-> [ast EXCEPT !.names = 0], count |-> ast.names]

----------------------------------------------------------------------------
\* deobfuscate (deobfuscator.ts:44-179)

\* MatcherOrder with dead-code removal moved before proxy replacement
MatcherOrder_swapped ==
    <<"simplifyExpressions", "removeDeadCode", "replaceProxyFunctions",
      "undoControlFlowFlattening", "simplifyObjectAccess", "decodeHexUnicode">>

\* the order of the six if-blocks of a pass, deobfuscator.ts:89-125; a
\* matcher's name is also the name of its toggle
MatcherOrder ==
    <<"simplifyExpressions", "replaceProxyFunctions", "removeDeadCode",
      "undoControlFlowFlattening", "simplifyObjectAccess", "decodeHexUnicode">>

Matcher(m, ast) ==
    CASE m = "simplifyExpressions"       -> simplifyExpressions(ast)
      [] m = "replaceProxyFunctions"     -> replaceProxyFunctions(ast)
      [] m = "removeDeadCode"            -> removeDeadCode(ast)
      [] m = "undoControlFlowFlattening" -> undoControlFlowFlattening(ast)
      [] m = "simplifyObjectAccess"      -> simplifyObjectAccess(ast)
      [] m = "decodeHexUnicode"          -> decodeHexUnicode(ast)

\* the template of the entry a matcher records
Label(m) ==
    CASE m = "simplifyExpressions"       -> "Simplified expressions"
      [] m = "replaceProxyFunctions"     -> "Replaced proxy function calls"
      [] m = "removeDeadCode"            -> "Removed dead code branches"
      [] m = "undoControlFlowFlattening" -> "Unflattened control flow blocks"
      [] m = "simplifyObjectAccess"      -> "Simplified object accesses"
      [] m = "decodeHexUnicode"          -> "Decoded hex/unicode escapes"

\* Gate without the pass conditions
Gate_everyPass(m, pass) == TRUE

\* the pass condition on each transformsApplied.push, lines 91, 97, 103, 109, 117, 123
Gate(m, pass) ==
    CASE m \in {"simplifyExpressions", "simplifyObjectAccess", "decodeHexUnicode"} -> pass = 1
      [] m \in {"replaceProxyFunctions", "removeDeadCode"} -> pass <= 2
      [] OTHER -> TRUE

\* one if-block of a pass: acc = [ast, ta, changed, trace, threw]
MatcherStep(opts, pass, m, acc) ==
    IF ~opts[m] THEN acc
    ELSE LET r  == Matcher(m, acc.ast)
             tr == Append(acc.trace, Ev("loop", pass, m, r.threw, r.count, FALSE))
         IN IF r.threw THEN [acc EXCEPT !.threw = TRUE, !.trace = tr]
            ELSE [ast     |-> r.ast,
                  ta      |-> IF r.count > 0 /\ Gate(m, pass)
                              THEN Append(acc.ta, T(Label(m), r.count)) ELSE acc.ta,
                  changed |-> acc.changed \/ r.count > 0,
                  trace   |-> tr,
                  threw   |-> FALSE]

RECURSIVE RunMatchers(_, _, _, _)
\* deobfuscator.ts:89-125; a matcher that throws ends the pass there
RunMatchers(opts, pass, i, acc) ==
    IF i > Len(MatcherOrder) \/ acc.threw THEN acc
    ELSE RunMatchers(opts, pass, i + 1, MatcherStep(opts, pass, MatcherOrder[i], acc))

\* LoopCond without the pass cap
LoopCond_nocap(ch, n) == ch

\* while (changed && passes < maxPasses), deobfuscator.ts:72
LoopCond(ch, n) == ch /\ n < maxPasses

\* StillChanged without the matchers' counts: any new text goes on
StillChanged_textOnly(ch, newCode, prevCode) == newCode # prevCode

\* StillChanged without the comparison of the texts
StillChanged_ignoreText(ch, newCode, prevCode) == ch

\* changed after  if (code === prevCode) changed = false, deobfuscator.ts:129
StillChanged(ch, newCode, prevCode) == ch /\ newCode # prevCode

\* deobfuscator.ts:55-61
PushStringTransforms(ta, r) ==
    IF r.replacements > 0
    THEN LET t1 == Append(ta, T("Resolved encoded strings", r.replacements))
         IN IF r.removedNodes > 0
            THEN Append(t1, T("Removed decoder infrastructure nodes", r.removedNodes))
            ELSE t1
    ELSE ta

\* code after the string-array phase, deobfuscator.ts:55-56
CarryForward(c, r) == IF r.replacements > 0 THEN r.code ELSE c

\* Dedupe that returns the list as it is
Dedupe_keepAll(s) == s

RECURSIVE Dedupe(_)
\* [...new Set(transformsApplied)], deobfuscator.ts:176: first occurrences, in order
Dedupe(s) ==
    IF s = <<>> THEN <<>>
    ELSE LET front == Dedupe(SubSeq(s, 1, Len(s) - 1))
             last  == s[Len(s)]
         IN IF last \in Range(front) THEN front ELSE Append(front, last)

\* the value of stringResult / rsOut before resolveStringArrays has returned
NotRun(c) == [ran |-> FALSE, threw |-> FALSE, code |-> c, replacements |-> 0, removedNodes |-> 0]

Ran(r) == [ran |-> TRUE, threw |-> r.threw, code |-> r.code,
           replacements |-> r.replacements, removedNodes |-> r.removedNodes]

\* OuterCatch without the outermost try/catch: the exception leaves deobfuscate
OuterCatch_rethrow(errs) == [errors |-> errs, pc |-> "thrown"]

\* } catch (e) { errors.push(`Fatal error: ...`) }, deobfuscator.ts:169-171:
\* control continues at the return statement
OuterCatch(errs) == [errors |-> Append(errs, Err("Fatal error", 0)), pc |-> "return"]

\* ParseCatch leaving the whole pipeline instead of the loop
ParseCatch_abort(errs, pass) == [errors |-> Append(errs, Err("Parse error", pass)), pc |-> "return"]

\* break, deobfuscator.ts:84-87: control continues at phase 3
ParseCatch(errs, pass) == [errors |-> Append(errs, Err("Parse error", pass)), pc |-> "rename"]

\* BeautifyCatch with an entry for the failure
BeautifyCatch_recorded(errs) == Append(errs, Err("Beautify error", 0))

\* } catch {}, deobfuscator.ts:167: nothing is recorded
BeautifyCatch(errs) == errs

\* PHASE 1, deobfuscator.ts:52-65
StringArrayPhase ==
    /\ pc = "phase1"
    /\ IF options.unpackStringArrays
       THEN LET r == resolveStringArrays(code)
            IN /\ trace' = Append(trace, Ev("string", 0, "resolveStringArrays", r.threw, r.replacements, FALSE))
               /\ stringResult' = Ran(r)
               /\ IF r.threw
                  THEN /\ errors' = Append(errors, Err("String resolution error", 0))
                       /\ UNCHANGED <<code, transformsApplied>>
                  ELSE /\ code' = CarryForward(code, r)
                       /\ transformsApplied' = PushStringTransforms(transformsApplied, r)
                       /\ UNCHANGED errors
       ELSE UNCHANGED <<code, transformsApplied, errors, stringResult, trace>>
    /\ pc' = "loop"
    /\ UNCHANGED <<options, source, changed, passes, rsIn, rsOut, mIn, mOut, run, first, ui>>

\* one pass of PHASE 2, deobfuscator.ts:72-130
LoopPass ==
    /\ pc = "loop"
    /\ LoopCond(changed, passes)
    /\ LET k == passes + 1
           p == parse(code)
       IN /\ passes' = k
          /\ IF p.threw
             THEN LET h == ParseCatch(errors, k)
                  IN /\ errors' = h.errors
                     /\ pc' = h.pc
                     /\ changed' = FALSE
                     /\ trace' = Append(trace, Ev("loop", k, "parse", TRUE, 0, FALSE))
                     /\ UNCHANGED <<code, transformsApplied>>
             ELSE LET acc == RunMatchers(options, k, 1,
                                [ast |-> p.ast, ta |-> transformsApplied, changed |-> FALSE,
                                 trace |-> Append(trace, Ev("loop", k, "parse", FALSE, 0, FALSE)),
                                 threw |-> FALSE])
                  IN /\ transformsApplied' = acc.ta
                     /\ IF acc.threw
                        THEN LET h == OuterCatch(errors)
                             IN /\ errors' = h.errors
                                /\ pc' = h.pc
                                /\ changed' = acc.changed
                                /\ trace' = acc.trace
                                /\ UNCHANGED code
                        ELSE LET out == generate(acc.ast)
                             IN /\ code' = out
                                /\ changed' = StillChanged(acc.changed, out, code)
                                /\ trace' = Append(acc.trace, Ev("loop", k, "generate", FALSE, 0, out = code))
                                /\ pc' = "loop"
                                /\ UNCHANGED errors
    /\ UNCHANGED <<options, source, stringResult, rsIn, rsOut, mIn, mOut, run, first, ui>>

\* the while condition is false, deobfuscator.ts:72
LoopExit ==
    /\ pc = "loop"
    /\ ~LoopCond(changed, passes)
    /\ pc' = "rename"
    /\ UNCHANGED <<options, source, code, transformsApplied, errors, changed, passes,
                   stringResult, trace, rsIn, rsOut, mIn, mOut, run, first, ui>>

\* PHASE 3, deobfuscator.ts:133-149
RenamePhase ==
    /\ pc = "rename"
    /\ IF options.renameVariables
       THEN LET p == parse(code)
            IN IF p.threw
               THEN /\ errors' = Append(errors, Err("Variable rename error", 0))
                    /\ trace' = Append(trace, Ev("rename", 0, "parse", TRUE, 0, FALSE))
                    /\ UNCHANGED <<code, transformsApplied>>
               ELSE LET r == renameHexVariables(p.ast)
                        t1 == trace \o <<Ev("rename", 0, "parse", FALSE, 0, FALSE),
                                         Ev("rename", 0, "renameHexVariables", FALSE, r.count, FALSE)>>
                    IN /\ UNCHANGED errors
                       /\ IF r.count > 0
                          THEN /\ transformsApplied' = Append(transformsApplied, T("Renamed variables", r.count))
                               /\ code' = generate(r.ast)
                               /\ trace' = Append(t1, Ev("rename", 0, "generate", FALSE, 0, FALSE))
                          ELSE /\ trace' = t1
                               /\ UNCHANGED <<code, transformsApplied>>
       ELSE UNCHANGED <<code, transformsApplied, errors, trace>>
    /\ pc' = "beautify"
    /\ UNCHANGED <<options, source, changed, passes, stringResult, rsIn, rsOut, mIn, mOut, run, first, ui>>

\* PHASE 4, deobfuscator.ts:152-168
BeautifyPhase ==
    /\ pc = "beautify"
    /\ IF options.beautifyOutput
       THEN LET p == parse(code)
            IN IF p.threw
               THEN /\ trace' = Append(trace, Ev("beautify", 0, "parse", TRUE, 0, FALSE))
                    /\ errors' = BeautifyCatch(errors)
                    /\ UNCHANGED <<code, transformsApplied>>
               ELSE /\ code' = generate(p.ast)
                    /\ transformsApplied' = Append(transformsApplied, T("Beautified output", 0))
                    /\ trace' = trace \o <<Ev("beautify", 0, "parse", FALSE, 0, FALSE),
                                            Ev("beautify", 0, "generate", FALSE, 0, FALSE)>>
                    /\ UNCHANGED errors
       ELSE UNCHANGED <<code, transformsApplied, trace, errors>>
    /\ pc' = "return"
    /\ UNCHANGED <<options, source, changed, passes, stringResult, rsIn, rsOut, mIn, mOut, run, first, ui>>

\* return { code, timeMs, transformsApplied: [...new Set(...)], errors }, lines 173-178
Return ==
    /\ pc = "return"
    /\ transformsApplied' = Dedupe(transformsApplied)
    /\ pc' = "done"
    /\ UNCHANGED <<options, source, code, errors, changed, passes, stringResult,
                   trace, rsIn, rsOut, mIn, mOut, run, first, ui>>

----------------------------------------------------------------------------
\* Inputs

Func(name, table, mentions, ret, uses) ==
    [name |-> name, table |-> table, mentions |-> mentions, ret |-> ret, uses |-> uses]
Call(callee, args) == [callee |-> callee, args |-> args, done |-> FALSE, val |-> ""]
Num(k) == [t |-> "num", v |-> k]
Str(k) == [t |-> "str", v |-> k]
Neg(k) == [t |-> "neg", v |-> k]
NonLiteral == [t |-> "other", v |-> 0]
\* the argument 1 + 1, ...: a binary expression of two numeric literals of value k
Sum(k) == [t |-> "sum", v |-> k]
Alias(id, init) == [id |-> id, init |-> init]
SA(funcs, iifes, aliases, calls) ==
    [funcs |-> funcs, iifes |-> iifes, aliases |-> aliases, calls |-> calls]
Text(fmt, sa, items, names) == [fmt |-> fmt, sa |-> sa, items |-> items, names |-> names]

\* function arr() { return ["a","b","c","d","e","f"]; }
ArrFn   == Func("arr", <<"a", "b", "c", "d", "e", "f">>, {}, "table", "")
\* the same with five elements: not an array-provider
ArrSmall == Func("arr", <<"a", "b", "c", "d", "e">>, {}, "table", "")
\* function dec(i) { return arr()[i]; }
DecFn   == Func("dec", <<>>, {"arr"}, "index", "arr")
\* function dec(i) { return arr().length + i; }
DecNum  == Func("dec", <<>>, {"arr"}, "num", "arr")
\* function dec(i) { throw new Error(arr()[i]); }
DecThrow == Func("dec", <<>>, {"arr"}, "throw", "arr")
\* function dec(i) { if (!(i in arr())) throw new RangeError(); return arr()[i]; }
DecStrict == Func("dec", <<>>, {"arr"}, "strict", "arr")
\* function dec(i) { return arr()[-i]; }
DecNeg  == Func("dec", <<>>, {"arr"}, "negate", "arr")
\* a function that has nothing to do with the idiom
MainFn  == Func("main", <<>>, {}, "num", "")
\* a second provider and its decoder
TblFn   == Func("tbl", <<"u", "v", "w", "x", "y", "z">>, {}, "table", "")
GetFn   == Func("get", <<>>, {"tbl"}, "index", "tbl")
\* function tbl() { return arr().length ? ["u","v","w","x","y","z"] : []; }
TblArr  == Func("tbl", <<"u", "v", "w", "x", "y", "z">>, {"arr"}, "table", "")

\* (function (a, n) { while (--n) a().push(a().shift()); })(arr, 3)
\* top: the statement is a statement of the program, not of a function body
RotFn   == [mentions |-> {"arr"}, push |-> TRUE, shift |-> TRUE, rot |-> 2, target |-> "arr",
            top |-> TRUE]
\* (function () { log.push(arr) })()
PushFn  == [mentions |-> {"arr"}, push |-> TRUE, shift |-> FALSE, rot |-> 0, target |-> "arr",
            top |-> TRUE]
\* function init() { (function (a) { a().push(a().shift()); })(arr); }
NestedRot == [mentions |-> {"arr"}, push |-> TRUE, shift |-> TRUE, rot |-> 1, target |-> "arr",
              top |-> FALSE]
\* (function (a) { a().push(a().shift()); })(tbl)
RotTbl  == [mentions |-> {"tbl"}, push |-> TRUE, shift |-> TRUE, rot |-> 1, target |-> "tbl",
            top |-> TRUE]
\* (function (a, arr) { a().push(a().shift()); })(tbl): its text contains both
\* names
RotBoth == [mentions |-> {"arr", "tbl"}, push |-> TRUE, shift |-> TRUE, rot |-> 1,
            target |-> "tbl", top |-> TRUE]

SANone       == SA(<<>>, <<>>, <<>>, <<>>)
SAResolved   == SA(<<ArrFn, DecFn>>, <<RotFn>>, <<Alias("b", "dec")>>,
                   <<Call("dec", <<Num(2)>>), Call("b", <<Num(0)>>)>>)
SAPlain      == SA(<<ArrFn, DecFn>>, <<>>, <<>>, <<Call("dec", <<Num(2)>>)>>)
SAUnresolved == SA(<<ArrFn, DecFn>>, <<RotFn>>, <<>>, <<Call("dec", <<NonLiteral>>)>>)
SAMixed      == SA(<<ArrFn, DecFn, TblFn, GetFn>>, <<>>, <<>>,
                   <<Call("dec", <<Num(2)>>), Call("get", <<NonLiteral>>)>>)
SANoDecoder  == SA(<<ArrFn, MainFn>>, <<RotFn>>, <<>>, <<Call("main", <<Num(1)>>)>>)
\* two pairs: the decoder of the first throws, the second resolves
SATwoPairs   == SA(<<ArrFn, DecThrow, TblFn, GetFn>>, <<>>, <<>>,
                   <<Call("dec", <<Num(1)>>), Call("get", <<Num(1)>>)>>)
\* ... dec(1 + 1)
SAFoldable   == SA(<<ArrFn, DecFn>>, <<>>, <<>>, <<Call("dec", <<Sum(2)>>)>>)

ToggleNames ==
    {"unpackStringArrays", "resolveArrayRotation", "replaceProxyFunctions",
     "simplifyExpressions", "removeDeadCode", "undoControlFlowFlattening",
     "decodeHexUnicode", "simplifyObjectAccess", "renameVariables", "beautifyOutput"}

\* DeobfuscatorOptions, deobfuscator.ts:11-22
Configurations == [ToggleNames -> BOOLEAN]

\* the source texts deobfuscate is run on
Sources ==
    {Text("raw", SANone, <<>>, 0),
     Text("gen", SANone, <<>>, 0),
     Text("raw", SAResolved, <<<<"simpl">>>>, MaxNames),
     Text("raw", SAPlain, <<>>, 0),
     Text("raw", SAUnresolved, <<>>, 0),
     Text("raw", SAMixed, <<>>, 0),
     Text("raw", SANoDecoder, <<>>, 0),
     Text("raw", SAFoldable, <<>>, 0),
     Text("raw", SANone, <<<<"simpl">>, <<"proxy", "dead">>, <<"obj">>, <<"hex">>>>, MaxNames),
     Text("raw", SANone, <<Repeat("simpl", MaxChain)>>, 0),
     Text("raw", SANone, <<<<"simpl">>, <<"proxyX">>>>, MaxNames),
     Text("raw", SANone, <<<<"hex", "proxyX">>>>, 0),
     Text("raw", SAResolved, <<<<"syntaxErr">>>>, 0),
     Text("raw", SANone, <<<<"dead", "syntaxErr">>>>, MaxNames),
     Text("raw", SANone, <<<<"cff", "cff", "cff">>, <<"proxy", "proxy", "proxy">>>>, 0),
     Text("gen", SANone, <<<<"hexS">>>>, 0)}

RECURSIVE SeqsUpTo(_, _)
\* the sequences over S of length at most n
SeqsUpTo(S, n) ==
    IF n <= 0 THEN {<<>>}
    ELSE LET shorter == SeqsUpTo(S, n - 1)
         IN shorter \cup {Append(q, x) : q \in {r \in shorter : Len(r) = n - 1}, x \in S}

FuncSeqs ==
    {<<>>, <<ArrFn>>, <<DecFn>>, <<ArrSmall, DecFn>>, <<ArrFn, DecFn>>, <<DecFn, ArrFn>>,
     <<ArrFn, DecNum>>, <<ArrFn, DecThrow>>, <<ArrFn, MainFn>>, <<ArrFn, DecFn, MainFn>>,
     <<ArrFn, DecStrict>>, <<ArrFn, DecNeg>>, <<ArrFn, TblArr, GetFn>>}
IIFESeqs  == {<<>>, <<RotFn>>, <<PushFn>>, <<NestedRot, RotFn>>}
AliasSeqs == {<<>>, <<Alias("b", "dec")>>,
              <<Alias("b", "dec"), Alias("c", "b")>>,
              <<Alias("c", "b"), Alias("b", "dec")>>}
CallSites == {Call("dec", <<Num(0)>>), Call("dec", <<Num(2)>>), Call("dec", <<Num(6)>>),
              Call("dec", <<NonLiteral>>), Call("dec", <<Str(1)>>),
              Call("b", <<Num(1)>>), Call("c", <<Num(3)>>),
              Call("dec", <<Num(1), NonLiteral>>), Call("dec", <<Neg(1)>>)}

\* the source texts resolveStringArrays is run on, on its own
ResolverInputs ==
    {Text("raw", SA(f, i, a, c), <<>>, 0) :
        f \in FuncSeqs, i \in IIFESeqs, a \in AliasSeqs, c \in SeqsUpTo(CallSites, MaxCalls)}
    \cup {Text("raw", SAMixed, <<>>, 0), Text("raw", SAPlain, <<<<"syntaxErr">>>>, 0),
          Text("raw", SATwoPairs, <<>>, 0),
          Text("raw", SA(<<ArrFn, TblFn, GetFn>>, <<RotTbl, RotBoth>>, <<>>,
                         <<Call("get", <<Num(0)>>)>>), <<>>, 0)}

----------------------------------------------------------------------------
\* Specifications

AllOn == [t \in ToggleNames |-> TRUE]
Idle  == Text("gen", SANone, <<>>, 0)

\* the value of mOut before the matcher has returned, and after
Pending(ast) == [ran |-> FALSE, threw |-> FALSE, ast |-> ast, count |-> 0]
Returned(r)  == [ran |-> TRUE, threw |-> r.threw, ast |-> r.ast, count |-> r.count]
NoTree == <<>>

\* the value of first before deobfuscate has returned for the first time
NoFirst == [code |-> Idle, transformsApplied |-> <<>>, exhausted |-> FALSE]

\* the value of ui when the page is not part of the run
NoPage == <<>>

\* deobfuscate(source, options): lines 45-48 and 68-69
Init ==
    /\ options \in Configurations
    /\ source \in Sources
    /\ code = source
    /\ transformsApplied = <<>>
    /\ errors = <<>>
    /\ changed = TRUE
    /\ passes = 0
    /\ stringResult = NotRun(source)
    /\ trace = <<>>
    /\ pc = "phase1"
    /\ rsIn = Idle
    /\ rsOut = NotRun(Idle)
    /\ mIn = NoTree
    /\ mOut = Pending(NoTree)
    /\ run = 1
    /\ first = NoFirst
    /\ ui = NoPage

Next ==
    \/ StringArrayPhase
    \/ LoopPass
    \/ LoopExit
    \/ RenamePhase
    \/ BeautifyPhase
    \/ Return

Spec == Init /\ [][Next]_vars

\* resolveStringArrays(sourceCode) on its own
InitResolver ==
    /\ rsIn \in ResolverInputs
    /\ rsOut = NotRun(rsIn)
    /\ options = AllOn
    /\ source = Idle
    /\ code = Idle
    /\ transformsApplied = <<>>
    /\ errors = <<>>
    /\ changed = TRUE
    /\ passes = 0
    /\ stringResult = NotRun(Idle)
    /\ trace = <<>>
    /\ pc = "idle"
    /\ mIn = NoTree
    /\ mOut = Pending(NoTree)
    /\ run = 1
    /\ first = NoFirst
    /\ ui = NoPage

CallResolver ==
    /\ ~rsOut.ran
    /\ rsOut' = Ran(resolveStringArrays(rsIn))
    /\ UNCHANGED <<options, source, code, transformsApplied, errors, changed, passes,
                   stringResult, trace, pc, rsIn, mIn, mOut, run, first, ui>>

NextResolver == CallResolver

SpecResolver == InitResolver /\ [][NextResolver]_vars

\* deobfuscate called a second time, with the same Configuration, on the code
\* the first call returned.  first.exhausted: the last pass of the first
\* call's loop ran to its end and no matcher of it reported a change.
RunAgain ==
    /\ pc = "done"
    /\ run = 1
    /\ first' = [code |-> code, transformsApplied |-> transformsApplied,
                 exhausted |-> /\ passes >= 1
                               /\ \E i \in DOMAIN trace :
                                     /\ trace[i].phase = "loop" /\ trace[i].pass = passes
                                     /\ trace[i].op = "generate"
                               /\ \A i \in DOMAIN trace :
                                     trace[i].phase = "loop" /\ trace[i].pass = passes
                                     => trace[i].count = 0]
    /\ run' = 2
    /\ source' = code
    /\ transformsApplied' = <<>>
    /\ errors' = <<>>
    /\ changed' = TRUE
    /\ passes' = 0
    /\ stringResult' = NotRun(code)
    /\ trace' = <<>>
    /\ pc' = "phase1"
    /\ UNCHANGED <<options, code, rsIn, rsOut, mIn, mOut, ui>>

NextTwice == Next \/ RunAgain

SpecTwice == Init /\ [][NextTwice]_vars

----------------------------------------------------------------------------
\* Properties of deobfuscate

IsFailure(e) == e.threw
IsRecordedFailure(e) == e.threw /\ e.phase # "beautify"

\* the errors entry that belongs to a call that threw
ErrOf(e) ==
    CASE e.phase = "string"                  -> Err("String resolution error", 0)
      [] e.phase = "loop" /\ e.op = "parse"  -> Err("Parse error", e.pass)
      [] e.phase = "loop" /\ e.op # "parse"  -> Err("Fatal error", 0)
      [] e.phase = "rename"                  -> Err("Variable rename error", 0)
      [] OTHER                               -> Err("Beautify error", 0)

ErrsOf(s) == [i \in DOMAIN s |-> ErrOf(s[i])]

\* the step made a call that threw
StepThrew == Len(trace') > Len(trace) /\ trace'[Len(trace')].threw

NeverThrows == pc # "thrown"

\* C1 as stated: deobfuscate never throws and every failure in any phase is an
\* entry of errors.
C1_EveryFailureRecorded ==
    /\ NeverThrows
    /\ Len(errors) = Len(SelectSeq(trace, IsFailure))

\* C1 amended: deobfuscate never throws; errors holds, in order, one entry for
\* every failure of the string-array phase, of a pass (parse error or fatal
\* error) and of renaming, and none for a failure of beautification; a phase or
\* pass that fails leaves code as it was, so the returned code is the text of
\* the last phase or pass that completed (the input text if none did).
C1_FailuresDegrade ==
    /\ [](NeverThrows /\ errors = ErrsOf(SelectSeq(trace, IsRecordedFailure)))
    /\ [][StepThrew => code' = code]_vars

\* a run in which a pass completed, a later pass, renaming and beautification failed
C1_Witness ==
    /\ pc = "done"
    /\ code # source
    /\ Len(errors) = 2
    /\ \E i \in DOMAIN trace : trace[i].phase = "beautify" /\ trace[i].threw

\* C2: the loop never starts more than 10 passes, whatever the matchers report.
C2_AtMostTenPasses ==
    /\ passes <= 10
    /\ Cardinality({i \in DOMAIN trace : trace[i].phase = "loop" /\ trace[i].op = "parse"}) <= 10

\* the loop was left after pass 10 although that pass reported a change and new text
C2_Witness == pc = "rename" /\ passes = 10 /\ changed

\* C3 as stated: when a call of the string-array phase, of a loop matcher or of
\* renaming throws, every later enabled stage still runs.
C3_EveryStageContained ==
    pc = "done" =>
        \A i \in DOMAIN trace :
            trace[i].threw /\ trace[i].phase \in {"string", "loop", "rename"} =>
                /\ trace[i].phase = "string" =>
                      \E j \in DOMAIN trace : j > i /\ trace[j].phase = "loop"
                /\ trace[i].phase \in {"string", "loop"} /\ options.renameVariables =>
                      \E j \in DOMAIN trace : j > i /\ trace[j].phase = "rename"
                /\ options.beautifyOutput =>
                      \E j \in DOMAIN trace : j > i /\ trace[j].phase = "beautify"

InPass(e, k) == e.phase = "loop" /\ e.pass = k
Started(k)   == \E i \in DOMAIN trace : InPass(trace[i], k) /\ trace[i].op = "parse"
Finished(k)  == \E i \in DOMAIN trace : InPass(trace[i], k) /\ trace[i].op = "generate"
ParseFailedAt(k) ==
    \E i \in DOMAIN trace : InPass(trace[i], k) /\ trace[i].op = "parse" /\ trace[i].threw
SomeCount(k) == \E i \in DOMAIN trace : InPass(trace[i], k) /\ trace[i].count > 0
TextDiffers(k) ==
    \E i \in DOMAIN trace : InPass(trace[i], k) /\ trace[i].op = "generate" /\ ~trace[i].same
Attempted(phase) == \E i \in DOMAIN trace : trace[i].phase = phase
IsParseError(e) == e.kind = "Parse error"

\* C4: a parse failure at the start of pass k adds the one entry "Parse error
\* (pass k)" and nothing else, leaves code as it was, ends the loop (no pass
\* k + 1), and renaming and beautification are still attempted when enabled.
C4_ParseFailureEndsLoopOnly ==
    /\ [](\A k \in 1..10 : ParseFailedAt(k) =>
            /\ SelectSeq(errors, IsParseError) = <<Err("Parse error", k)>>
            /\ passes = k
            /\ pc \in {"rename", "beautify", "return", "done"}
            /\ pc = "done" =>
                  /\ options.renameVariables => Attempted("rename")
                  /\ options.beautifyOutput => Attempted("beautify"))
    /\ [][(StepThrew /\ trace'[Len(trace')].phase = "loop" /\ trace'[Len(trace')].op = "parse") =>
            /\ code' = code
            /\ transformsApplied' = transformsApplied
            /\ errors' = Append(errors, Err("Parse error", passes + 1))]_vars

\* pass 1 completed and changed the code, pass 2 could not parse it
C4_Witness ==
    /\ pc = "done"
    /\ ParseFailedAt(2)
    /\ code # source
    /\ options.renameVariables /\ options.beautifyOutput

\* C5: pass k + 1 is run if and only if pass k finished, a matcher returned a
\* count greater than zero in it, its regenerated text differs from the text
\* it started with, and k < 10.
C5_Continuation ==
    \A k \in 1..passes :
        LET goesOn == Finished(k) /\ SomeCount(k) /\ TextDiffers(k) /\ k < 10
        IN /\ Started(k + 1) => goesOn
           /\ (pc \notin {"phase1", "loop"} /\ goesOn) => Started(k + 1)

\* a pass in which a matcher counted a rewrite and the text stayed the same was the last
C5_Witness ==
    /\ pc = "done"
    /\ Finished(1) /\ SomeCount(1) /\ ~TextDiffers(1)
    /\ ~Started(2)

NoCall(op)   == \A i \in DOMAIN trace : trace[i].op # op
NoEntry(kinds) == \A i \in DOMAIN transformsApplied : transformsApplied[i].kind \notin kinds

LoopMatchers ==
    {"simplifyExpressions", "replaceProxyFunctions", "removeDeadCode",
     "undoControlFlowFlattening", "simplifyObjectAccess", "decodeHexUnicode"}

\* the nine toggles other than resolveArrayRotation: a toggle that is off means
\* its phase or matcher is not called and records nothing
TogglesRespected ==
    /\ ~options.unpackStringArrays =>
          /\ ~Attempted("string")
          /\ NoEntry({"Resolved encoded strings", "Removed decoder infrastructure nodes"})
    /\ \A m \in LoopMatchers : ~options[m] => NoCall(m) /\ NoEntry({Label(m)})
    /\ ~options.renameVariables => ~Attempted("rename") /\ NoEntry({"Renamed variables"})
    /\ ~options.beautifyOutput => ~Attempted("beautify") /\ NoEntry({"Beautified output"})

\* the entries of the literal tables of the source at index k
LiteralEntries(k) ==
    {f.table[k + 1] : f \in {g \in Range(source.sa.funcs) : k >= 0 /\ k < Len(g.table)}}

\* with resolveArrayRotation off no rotation fragment is removed or evaluated:
\* the resolver's output keeps every fragment, and a resolved call holds the
\* entry of the table as written
RotationToggleRespected ==
    (~options.resolveArrayRotation /\ stringResult.ran /\ ~stringResult.threw) =>
        /\ stringResult.code.sa.iifes = source.sa.iifes
        /\ \A i \in DOMAIN stringResult.code.sa.calls :
              LET c == stringResult.code.sa.calls[i]
              IN c.done => c.val \in LiteralEntries(ArgValue(c.args[1]).v)

\* C6 as stated: each of the ten toggles switches its own behaviour off.
C6_EveryToggleRespected == TogglesRespected /\ RotationToggleRespected

FixedOrder ==
    <<"simplifyExpressions", "replaceProxyFunctions", "removeDeadCode",
      "undoControlFlowFlattening", "simplifyObjectAccess", "decodeHexUnicode">>
IsOn(m) == options[m]
OpsOf(s) == [i \in DOMAIN s |-> s[i].op]
IsPrefix(a, b) == Len(a) <= Len(b) /\ a = SubSeq(b, 1, Len(a))

PassEvents(k) == LET Here(e) == InPass(e, k) IN SelectSeq(trace, Here)

\* C7: the calls of a pass are one parse, then the enabled matchers in the
\* order simplifyExpressions, replaceProxyFunctions, removeDeadCode,
\* undoControlFlowFlattening, simplifyObjectAccess, decodeHexUnicode, then one
\* generate; a pass that ends early ends at the call that threw.
C7_FixedMatcherOrder ==
    \A k \in 1..passes :
        LET ev   == PassEvents(k)
            want == <<"parse">> \o SelectSeq(FixedOrder, IsOn) \o <<"generate">>
        IN /\ ev # <<>>
           /\ IsPrefix(OpsOf(ev), want)
           /\ OpsOf(ev) = want \/ ev[Len(ev)].threw
           /\ \A i \in 1..(Len(ev) - 1) : ~ev[i].threw

\* all six matchers on, proxy replacement exposed a dead branch that was
\* removed in the same pass, and a second full pass followed
C7_Witness ==
    /\ pc = "done"
    /\ \A m \in LoopMatchers : options[m]
    /\ Len(PassEvents(2)) = 8
    /\ T("Replaced proxy function calls", 1) \in Range(transformsApplied)
    /\ T("Removed dead code branches", 1) \in Range(transformsApplied)

\* C8 as stated: once the string-array phase is over, "Removed M decoder
\* infrastructure nodes" is recorded whenever the resolver removed M > 0 nodes,
\* and the code carried into the loop is then the resolver's output, also when
\* it replaced nothing.
C8_RemovedNodesRecorded ==
    (pc # "phase1" /\ stringResult.ran /\ ~stringResult.threw /\ stringResult.removedNodes > 0) =>
        /\ T("Removed decoder infrastructure nodes", stringResult.removedNodes)
              \in Range(transformsApplied)
        /\ (pc = "loop" /\ passes = 0) => code = stringResult.code

----------------------------------------------------------------------------
\* Properties of resolveStringArrays

Providers(sa) == {i \in DOMAIN sa.funcs : Len(sa.funcs[i].table) > 5}

\* the functions that return the entry of provider a's table at their argument
IndexDecoders(sa, a) ==
    {d \in DOMAIN sa.funcs :
        /\ sa.funcs[d].name # sa.funcs[a].name
        /\ sa.funcs[d].ret = "index"
        /\ sa.funcs[d].uses = sa.funcs[a].name
        /\ sa.funcs[a].name \in sa.funcs[d].mentions}

\* the rotation fragments of provider a
RotationsByText(sa, a) ==
    {r \in DOMAIN sa.iifes :
        sa.funcs[a].name \in sa.iifes[r].mentions /\ sa.iifes[r].push /\ sa.iifes[r].shift}

\* the table of provider a as its decoder reads it: rotated if the program
\* has a rotation fragment for it
LiveTable(sa, a) ==
    IF RotationsByText(sa, a) = {} THEN sa.funcs[a].table
    ELSE LET r == CHOOSE x \in RotationsByText(sa, a) : \A y \in RotationsByText(sa, a) : x <= y
         IN Rotate(sa.funcs[a].table, sa.iifes[r].rot)

\* the decoder's name and the variables initialised to it
DirectAliases(sa, d) ==
    {sa.funcs[d].name}
        \cup {sa.aliases[j].id : j \in {i \in DOMAIN sa.aliases : sa.aliases[i].init = sa.funcs[d].name}}

AllLiteral(c) == c.args # <<>> /\ \A j \in DOMAIN c.args : c.args[j].t \in {"num", "str"}

DecodersByText(sa, a) ==
    {d \in DOMAIN sa.funcs :
        sa.funcs[d].name # sa.funcs[a].name /\ sa.funcs[a].name \in sa.funcs[d].mentions}

Grow(sa, N) ==
    N \cup {sa.aliases[j].id : j \in {i \in DOMAIN sa.aliases : sa.aliases[i].init \in N}}

\* the names a call of a decoder of provider a can be made through (the alias
\* chains of the inputs are at most two long)
CalleesOf(sa, a) == Grow(sa, Grow(sa, {sa.funcs[d].name : d \in DecodersByText(sa, a)}))

\* C10 as stated: a provider none of whose decoder calls was resolved is left
\* untouched: the provider, its rotation fragment and its decoder are still in
\* the code the resolver returns.
C10_IdleProviderUntouched ==
    (rsOut.ran /\ ~rsOut.threw) =>
        \A a \in Providers(rsIn.sa) :
            (\A i \in DOMAIN rsIn.sa.calls :
                rsIn.sa.calls[i].callee \in CalleesOf(rsIn.sa, a) => ~rsOut.code.sa.calls[i].done) =>
                    /\ rsIn.sa.funcs[a] \in Range(rsOut.code.sa.funcs)
                    /\ \A d \in DecodersByText(rsIn.sa, a) :
                          rsIn.sa.funcs[d] \in Range(rsOut.code.sa.funcs)
                    /\ \A r \in RotationsByText(rsIn.sa, a) :
                          rsIn.sa.iifes[r] \in Range(rsOut.code.sa.iifes)

\* the part of C10 that holds: a provider no function mentions is left
\* untouched, with the rotation fragments that mention no other name
ProviderWithoutDecoderUntouched ==
    (rsOut.ran /\ ~rsOut.threw) =>
        \A a \in Providers(rsIn.sa) :
            DecodersByText(rsIn.sa, a) = {} =>
                /\ rsIn.sa.funcs[a] \in Range(rsOut.code.sa.funcs)
                /\ \A r \in RotationsByText(rsIn.sa, a) :
                      rsIn.sa.iifes[r].mentions = {rsIn.sa.funcs[a].name} =>
                          rsIn.sa.iifes[r] \in Range(rsOut.code.sa.iifes)

----------------------------------------------------------------------------
\* renameHexVariables (deobfuscator.ts:469-486) on a tree of scopes
\*   scopes : the scopes in the order the Scope visitor meets them (a scope
\*            comes after its parent; parent 0: the program scope has none),
\*            each with its own bindings [name, kind] in declaration order;
\*            kind is what the prefix test of line 477 finds: "func" the
\*            binding is a function declaration, "param" a parameter, "var"
\*   refs   : the identifiers that refer to a name, [scope, name]
\* A name is [p, n]: p the shape of the identifier ("_0x" and "a0_0x" are the
\* two alternatives of the pattern, "id" any other spelling, "var" / "func" /
\* "param" a generated name) and n what follows it.

Name(p, n) == [p |-> p, n |-> n]
Binding(name, kind) == [name |-> name, kind |-> kind]
Scope(parent, bindings) == [parent |-> parent, bindings |-> bindings]
Ref(scope, name) == [scope |-> scope, name |-> name]

\* /^_0x[a-f0-9]+$|^a\d+_0x[a-f0-9]+$/i, deobfuscator.ts:471
pattern(name) == name.p \in {"_0x", "a0_0x"}

Declares(scope, name) == \E k \in DOMAIN scope.bindings : scope.bindings[k].name = name

RECURSIVE BindingScope(_, _, _)
\* the scope whose binding an identifier `name` in scope s refers to; 0: none
BindingScope(scopes, s, name) ==
    IF s = 0 THEN 0
    ELSE IF Declares(scopes[s], name) THEN s
    ELSE BindingScope(scopes, scopes[s].parent, name)

\* path.scope.rename(name, newName), deobfuscator.ts:480: the binding of scope
\* s and every identifier that refers to it
rename(ast, s, name, newName) ==
    [scopes |-> [i \in DOMAIN ast.scopes |->
                    IF i # s THEN ast.scopes[i]
                    ELSE [ast.scopes[i] EXCEPT !.bindings =
                            [k \in DOMAIN ast.scopes[i].bindings |->
                                IF ast.scopes[i].bindings[k].name = name
                                THEN Binding(newName, ast.scopes[i].bindings[k].kind)
                                ELSE ast.scopes[i].bindings[k]]]],
     refs   |-> [r \in DOMAIN ast.refs |->
                    IF /\ ast.refs[r].name = name
                       /\ BindingScope(ast.scopes, ast.refs[r].scope, name) = s
                    THEN Ref(ast.refs[r].scope, newName)
                    ELSE ast.refs[r]]]

\* the body of the for loop, deobfuscator.ts:476-480, for binding k of scope s
\* st = [ast, counters, renamed, count]
RenameBinding(st, s, k) ==
    LET b == st.ast.scopes[s].bindings[k]
    IN IF b.name \in st.renamed \/ ~pattern(b.name) THEN st
       ELSE LET n == st.counters[b.kind] + 1
            IN [ast      |-> rename(st.ast, s, b.name, Name(b.kind, n)),
                counters |-> [st.counters EXCEPT ![b.kind] = n],
                renamed  |-> st.renamed \cup {b.name},
                count    |-> st.count + 1]

RECURSIVE RenameScope(_, _, _)
\* Scope(path), deobfuscator.ts:474-482
RenameScope(st, s, k) ==
    IF k > Len(st.ast.scopes[s].bindings) THEN st
    ELSE RenameScope(RenameBinding(st, s, k), s, k + 1)

RECURSIVE RenameScopes(_, _)
RenameScopes(st, s) ==
    IF s > Len(st.ast.scopes) THEN st
    ELSE RenameScopes(RenameScope(st, s, 1), s + 1)

\* renameHexVariables(ast) on a tree of scopes
renameHexVariablesIn(ast) ==
    LET st == RenameScopes([ast |-> ast,
                            counters |-> [var |-> 0, func |-> 0, param |-> 0],
                            renamed |-> {}, count |-> 0], 1)
    IN [threw |-> FALSE, ast |-> st.ast, count |-> st.count]

\* _0x1a2b, _0x3c4d and a plain identifier
Hex1 == Name("_0x", 1)
Hex2 == Name("_0x", 2)
Plain == Name("id", 1)

\* the bindings of the program scope of the inputs
ProgramBindings ==
    {<<>>, <<Binding(Hex1, "func")>>, <<Binding(Hex2, "func")>>,
     <<Binding(Hex1, "var"), Binding(Plain, "var")>>}
\* the bindings of a function scope of the inputs
FunctionBindings ==
    {<<>>, <<Binding(Hex1, "var")>>, <<Binding(Hex2, "var")>>,
     <<Binding(Hex1, "param"), Binding(Hex2, "var")>>, <<Binding(Plain, "param")>>}
\* the bindings of a block nested in the first function
BlockBindings == {<<>>, <<Binding(Hex1, "var")>>}

\* a program with two functions side by side and a block inside the first;
\* every scope mentions both obfuscated names
RenamerInputs ==
    {[scopes |-> <<Scope(0, p), Scope(1, f), Scope(2, b), Scope(1, g)>>,
      refs   |-> <<Ref(1, Hex1), Ref(1, Hex2), Ref(2, Hex1), Ref(2, Hex2),
                   Ref(3, Hex1), Ref(4, Hex1), Ref(4, Hex2)>>] :
        p \in ProgramBindings, f \in FunctionBindings,
        b \in BlockBindings, g \in FunctionBindings}

\* every variable of deobfuscate and of resolveStringArrays at rest
PipelineIdle ==
    /\ options = AllOn
    /\ source = Idle
    /\ code = Idle
    /\ transformsApplied = <<>>
    /\ errors = <<>>
    /\ changed = TRUE
    /\ passes = 0
    /\ stringResult = NotRun(Idle)
    /\ trace = <<>>
    /\ pc = "idle"
    /\ rsIn = Idle
    /\ rsOut = NotRun(Idle)
    /\ run = 1
    /\ first = NoFirst
    /\ ui = NoPage

InitRenamer ==
    /\ mIn \in RenamerInputs
    /\ mOut = Pending(mIn)
    /\ PipelineIdle

CallRenamer ==
    /\ ~mOut.ran
    /\ mOut' = Returned(renameHexVariablesIn(mIn))
    /\ UNCHANGED <<options, source, code, transformsApplied, errors, changed, passes,
                   stringResult, trace, pc, rsIn, rsOut, mIn, run, first, ui>>

NextRenamer == CallRenamer

SpecRenamer == InitRenamer /\ [][NextRenamer]_vars

RECURSIVE IsAncestor(_, _, _)
\* scope a encloses scope s (or is s)
IsAncestor(scopes, a, s) ==
    IF s = 0 THEN FALSE
    ELSE IF s = a THEN TRUE
    ELSE IsAncestor(scopes, a, scopes[s].parent)

DisjointScopes(scopes, s1, s2) ==
    ~IsAncestor(scopes, s1, s2) /\ ~IsAncestor(scopes, s2, s1)

\* the bindings of a tree, as <<scope, position>>
BindingsOf(ast) ==
    UNION {{<<s, k>> : k \in DOMAIN ast.scopes[s].bindings} : s \in DOMAIN ast.scopes}

NameAt(ast, sk) == ast.scopes[sk[1]].bindings[sk[2]].name

IsGenerated(name) == name.p \in {"var", "func", "param"}

\* the references to a renamed binding carry its new name
ReferencesFollow(in, out) ==
    \A r \in DOMAIN in.refs :
        LET s == BindingScope(in.scopes, in.refs[r].scope, in.refs[r].name)
        IN s # 0 =>
            \E k \in DOMAIN in.scopes[s].bindings :
                /\ in.scopes[s].bindings[k].name = in.refs[r].name
                /\ out.refs[r].name = out.scopes[s].bindings[k].name

\* the count is the number of bindings whose name changed, each to a generated name
RenamedOnce(in, out, count) ==
    LET moved == {sk \in BindingsOf(in) : NameAt(out, sk) # NameAt(in, sk)}
    IN /\ count = Cardinality(moved)
       /\ \A sk \in moved : IsGenerated(NameAt(out, sk))

\* two bindings in disjoint scopes are both renamed, to different names
DisjointBindingsRenamed(in, out, sameNameToo) ==
    \A b1, b2 \in BindingsOf(in) :
        /\ b1 # b2
        /\ pattern(NameAt(in, b1)) /\ pattern(NameAt(in, b2))
        /\ DisjointScopes(in.scopes, b1[1], b2[1])
        /\ sameNameToo \/ NameAt(in, b1) # NameAt(in, b2)
        => /\ IsGenerated(NameAt(out, b1)) /\ IsGenerated(NameAt(out, b2))
           /\ NameAt(out, b1) # NameAt(out, b2)

\* C11: any two distinct obfuscator-named bindings in disjoint scopes, also two
\* that carry the same name, are each renamed and get distinct generated
\* names; every reference to a renamed binding follows it; no binding is
\* renamed more than once.
C11_DisjointBindingsRenamed ==
    mOut.ran =>
        /\ DisjointBindingsRenamed(mIn, mOut.ast, TRUE)
        /\ ReferencesFollow(mIn, mOut.ast)
        /\ RenamedOnce(mIn, mOut.ast, mOut.count)

\* b1 is met before b2 by the Scope visitor
Before(b1, b2) == b1[1] < b2[1] \/ (b1[1] = b2[1] /\ b1[2] < b2[2])

\* what does hold: of the bindings that carry one obfuscated name, the first
\* the visitor meets is renamed and the others keep their name
FirstOfEachNameRenamed ==
    mOut.ran =>
        /\ \A b \in BindingsOf(mIn) :
              NameAt(mOut.ast, b) # NameAt(mIn, b)
              <=> /\ pattern(NameAt(mIn, b))
                  /\ \A e \in BindingsOf(mIn) : Before(e, b) => NameAt(mIn, e) # NameAt(mIn, b)
        /\ ReferencesFollow(mIn, mOut.ast)
        /\ RenamedOnce(mIn, mOut.ast, mOut.count)

----------------------------------------------------------------------------
\* undoControlFlowFlattening (deobfuscator.ts:420-442) on a list of statements
\*   a statement is a record with a field t:
\*     "expr"     an expression statement, id tells them apart
\*     "continue", "break"
\*     "switch"   [disc, cases], a case is [test, consequent]
\*     "while"    [block, body]: block says the body is a block statement
\*   a case test is a string literal, a numeric literal or absent (default)
\*   a discriminant is [kind, method, lit, sep, index]:
\*     kind "splitIndex"   lit.method(sep)[index], lit a string literal
\*          "member"       any other member expression, such as order[i++]
\*          "ident"        an identifier
\*     index "incr" is i++, "ident" is i, "num" is a numeric literal
\*   a string is the sequence of its characters

Expr(id) == [t |-> "expr", id |-> id]
Continue == [t |-> "continue"]
Break    == [t |-> "break"]
StrTest(v) == [t |-> "str", v |-> v, n |-> 0]
NumTest(n) == [t |-> "num", v |-> <<>>, n |-> n]
DefaultTest == [t |-> "default", v |-> <<>>, n |-> 0]
SwitchCase(test, consequent) == [test |-> test, consequent |-> consequent]
Switch(disc, cases) == [t |-> "switch", disc |-> disc, cases |-> cases]
While(block, body) == [t |-> "while", block |-> block, body |-> body]
Disc(kind, method, lit, sep, index) ==
    [kind |-> kind, method |-> method, lit |-> lit, sep |-> sep, index |-> index]

RECURSIVE split(_, _)
\* String.prototype.split with a one-character separator
split(str, sep) ==
    IF \A i \in DOMAIN str : str[i] # sep THEN <<str>>
    ELSE LET i == CHOOSE i \in DOMAIN str : str[i] = sep /\ \A j \in 1..(i - 1) : str[j] # sep
         IN <<SubSeq(str, 1, i - 1)>> \o split(SubSeq(str, i + 1, Len(str)), sep)

\* String(value) of a numeric case test; the tests of the inputs are digits
String(n) == <<(<<"0", "1", "2", "3", "4", "5", "6", "7", "8", "9">>)[n + 1]>>

\* the key of a case in the map of line 433; a default case has the key null
CaseKey(c) ==
    CASE c.test.t = "str" -> [null |-> FALSE, v |-> c.test.v]
      [] c.test.t = "num" -> [null |-> FALSE, v |-> String(c.test.n)]
      [] OTHER            -> [null |-> TRUE,  v |-> <<>>]

\* c.consequent.filter(s => !isContinueStatement(s) && !isBreakStatement(s))
CaseBody(c) == SelectSeq(c.consequent, LAMBDA st : st.t \notin {"continue", "break"})

\* cases.has(k) / cases.get(k): a later case with the same key replaces an earlier one
HasCase(cases, k) == \E i \in DOMAIN cases : CaseKey(cases[i]) = [null |-> FALSE, v |-> k]
GetCase(cases, k) ==
    LET hit == {i \in DOMAIN cases : CaseKey(cases[i]) = [null |-> FALSE, v |-> k]}
    IN CaseBody(cases[CHOOSE i \in hit : \A j \in hit : j <= i])

\* let order, deobfuscator.ts:428-431: the separator argument and the index
\* of the discriminant are not looked at
Order(disc) ==
    IF disc.kind = "splitIndex" /\ disc.method = "split" THEN split(disc.lit, "|") ELSE <<>>

\* WhileStatement(path), deobfuscator.ts:423-438: the statements the loop is
\* replaced with, or the loop itself
WhileStatement(w) ==
    LET sws == SelectSeq(w.body, LAMBDA st : st.t = "switch")
        same == [count |-> 0, stmts |-> <<w>>]
    IN IF ~w.block \/ sws = <<>> THEN same
       ELSE LET sw    == sws[1]
                order == IF sw.disc.kind = "ident" THEN <<>> ELSE Order(sw.disc)
                res   == FlatCat([k \in DOMAIN order |->
                            IF HasCase(sw.cases, order[k]) THEN GetCase(sw.cases, order[k])
                            ELSE <<>>])
            IN IF Len(order) > 0 /\ Len(res) > 0
               THEN [count |-> 1, stmts |-> res]
               ELSE same

\* undoControlFlowFlattening(ast) on the statements of a program
undoControlFlowFlatteningIn(ast) ==
    LET each == [i \in DOMAIN ast |->
                    IF ast[i].t = "while" THEN WhileStatement(ast[i])
                    ELSE [count |-> 0, stmts |-> <<ast[i]>>]]
        sum[i \in 0..Len(ast)] == IF i = 0 THEN 0 ELSE sum[i - 1] + each[i].count
    IN [threw |-> FALSE,
        ast   |-> FlatCat([i \in DOMAIN ast |-> each[i].stmts]),
        count |-> sum[Len(ast)]]

\* the literals, case lists and loops of the inputs
SplitLiterals ==
    {<<"1", "|", "0">>, <<"0", "|", "1">>, <<"1", ",", "0">>, <<"1">>}
Discriminants ==
    {Disc("splitIndex", m, l, sep, ix) :
        m \in {"split", "concat"}, l \in SplitLiterals, sep \in {"|", ","},
        ix \in {"incr", "ident", "num"}}
    \cup {Disc("member", "", <<>>, "", "incr"), Disc("ident", "", <<>>, "", "ident")}
CaseLists ==
    {<<SwitchCase(StrTest(<<"0">>), <<Expr("A"), Continue>>),
       SwitchCase(StrTest(<<"1">>), <<Expr("B"), Continue>>)>>,
     <<SwitchCase(StrTest(<<"1">>), <<Expr("B"), Expr("C"), Continue>>),
       SwitchCase(StrTest(<<"0">>), <<Expr("A"), Break>>)>>,
     <<SwitchCase(NumTest(0), <<Expr("A"), Continue>>),
       SwitchCase(StrTest(<<"1">>), <<Continue, Expr("B"), Continue>>)>>,
     <<SwitchCase(StrTest(<<"0">>), <<Continue>>),
       SwitchCase(StrTest(<<"1">>), <<Continue>>)>>,
     <<SwitchCase(StrTest(<<"1", ",", "0">>), <<Expr("A"), Continue>>),
       SwitchCase(DefaultTest, <<Expr("B")>>)>>}
LoopBodies(sw) ==
    {[block |-> TRUE,  body |-> <<sw, Break>>],
     [block |-> TRUE,  body |-> <<Expr("S"), sw>>],
     [block |-> FALSE, body |-> <<sw>>],
     [block |-> TRUE,  body |-> <<Expr("S"), Break>>]}

\* programs: a statement, the loop, a statement
ControlFlowInputs ==
    {<<Expr("P"), While(b.block, b.body), Expr("Q")>> :
        b \in UNION {LoopBodies(Switch(d, c)) : d \in Discriminants, c \in CaseLists}}

InitControlFlow ==
    /\ mIn \in ControlFlowInputs
    /\ mOut = Pending(mIn)
    /\ PipelineIdle

CallControlFlow ==
    /\ ~mOut.ran
    /\ mOut' = Returned(undoControlFlowFlatteningIn(mIn))
    /\ UNCHANGED <<options, source, code, transformsApplied, errors, changed, passes,
                   stringResult, trace, pc, rsIn, rsOut, mIn, run, first, ui>>

NextControlFlow == CallControlFlow

SpecControlFlow == InitControlFlow /\ [][NextControlFlow]_vars

\* the loop of an input and its switch
LoopOf(ast) == ast[2]
HasSwitch(w) == \E i \in DOMAIN w.body : w.body[i].t = "switch"
SwitchOf(w) == w.body[CHOOSE i \in DOMAIN w.body : w.body[i].t = "switch"]

\* the discriminant is  "...".split('|')[i++]
ExactShape(d) ==
    d.kind = "splitIndex" /\ d.method = "split" /\ d.sep = "|" /\ d.index = "incr"

IsFlattened(w) == w.block /\ HasSwitch(w) /\ ExactShape(SwitchOf(w).disc)

\* a case without its trailing continue / break
StripTrailing(stmts) ==
    IF stmts # <<>> /\ stmts[Len(stmts)].t \in {"continue", "break"}
    THEN SubSeq(stmts, 1, Len(stmts) - 1) ELSE stmts

\* the bodies of the cases, in the order of the labels
InLabelOrder(sw) ==
    LET labels == split(sw.disc.lit, "|")
        bodyOf(l) ==
            LET hit == {i \in DOMAIN sw.cases :
                            \/ sw.cases[i].test.t = "str" /\ sw.cases[i].test.v = l
                            \/ sw.cases[i].test.t = "num" /\ String(sw.cases[i].test.n) = l}
            IN IF hit = {} THEN <<>>
               ELSE StripTrailing(sw.cases[CHOOSE i \in hit : TRUE].consequent)
    IN FlatCat([k \in DOMAIN labels |-> bodyOf(labels[k])])

\* C12: a while loop whose body holds a switch on "...".split('|')[i++] is
\* replaced by the case bodies in the order of the labels of the literal, each
\* without its trailing continue / break and with every other statement kept.
C12_UnflattenedInLabelOrder ==
    mOut.ran /\ IsFlattened(LoopOf(mIn)) =>
        mOut.ast = <<mIn[1]>> \o InLabelOrder(SwitchOf(LoopOf(mIn))) \o <<mIn[3]>>

\* what does hold: the same when some label has a case with statements and
\* every case ends in its only continue / break
WellFormedCases(sw) ==
    /\ InLabelOrder(sw) # <<>>
    /\ \A i \in DOMAIN sw.cases :
          CaseBody(sw.cases[i]) = StripTrailing(sw.cases[i].consequent)

WellFormedUnflattened ==
    mOut.ran /\ IsFlattened(LoopOf(mIn)) /\ WellFormedCases(SwitchOf(LoopOf(mIn))) =>
        mOut.ast = <<mIn[1]>> \o InLabelOrder(SwitchOf(LoopOf(mIn))) \o <<mIn[3]>>

\* C13: when the discriminant is not exactly "...".split('|')[i++] (another
\* separator, an index that is not an incrementing variable, any other shape)
\* the loop is left untouched and no change is counted.
C13_OtherShapesUntouched ==
    mOut.ran /\ ~IsFlattened(LoopOf(mIn)) => mOut.ast = mIn /\ mOut.count = 0

\* what does hold: a discriminant that is not a call of split on a string
\* literal, indexed by anything, leaves the loop untouched
NoSplitCallUntouched ==
    /\ mOut.ran
    /\ \/ ~LoopOf(mIn).block
       \/ ~HasSwitch(LoopOf(mIn))
       \/ SwitchOf(LoopOf(mIn)).disc.kind # "splitIndex"
       \/ SwitchOf(LoopOf(mIn)).disc.method # "split"
    => mOut.ast = mIn /\ mOut.count = 0

----------------------------------------------------------------------------
\* removeDeadCode (deobfuscator.ts:357-382) on a list of statements
\*   statements: "expr" [e] an expression statement, "block" [body],
\*               "if" [test, consequent, alternate], "none" no statement (the
\*               alternate of an if without else)
\*   expressions: "id" [id], "cond" [test, consequent, alternate]
\*   tests: "bool" [v] a boolean literal, "cmp" [op, left, right] a binary
\*          expression of two string literals, "id" anything else

ExprStmt(e) == [t |-> "expr", e |-> e]
Block(stmts) == [t |-> "block", body |-> stmts]
If(test, consequent, alternate) ==
    [t |-> "if", test |-> test, consequent |-> consequent, alternate |-> alternate]
NoStmt == [t |-> "none"]
Ident(id) == [t |-> "id", id |-> id]
Cond(test, consequent, alternate) ==
    [t |-> "cond", test |-> test, consequent |-> consequent, alternate |-> alternate]
BoolLit(v) == [t |-> "bool", v |-> v]
StrCmp(op, left, right) == [t |-> "cmp", op |-> op, left |-> left, right |-> right]

\* the two tests of each visitor, deobfuscator.ts:361-365 and 369, 373-374:
\* whether the test is one removeDeadCode evaluates, and its value
StaticTest(test) ==
    CASE test.t = "bool" -> [known |-> TRUE, v |-> test.v]
      [] test.t = "cmp" /\ test.op \in {"===", "!=="} ->
            [known |-> TRUE,
             v |-> IF test.op = "===" THEN test.left = test.right ELSE test.left # test.right]
      [] OTHER -> [known |-> FALSE, v |-> FALSE]

\* IfBranch that puts the selected branch in place as it is
IfBranch_nested(branch) == IF branch.t = "none" THEN <<>> ELSE <<branch>>

\* deobfuscator.ts:371 and 376: the statements the if statement is replaced
\* with (replaceWithMultiple of a block's body, replaceWith, or remove)
IfBranch(branch) ==
    IF branch.t = "none" THEN <<>>
    ELSE IF branch.t = "block" THEN branch.body
    ELSE <<branch>>

RECURSIVE ConditionalExpression(_)
\* ConditionalExpression(path), deobfuscator.ts:360-367; the node put in
\* place is visited in turn
ConditionalExpression(e) ==
    IF e.t # "cond" THEN [e |-> e, count |-> 0]
    ELSE LET s == StaticTest(e.test)
         IN IF s.known
            THEN LET r == ConditionalExpression(IF s.v THEN e.consequent ELSE e.alternate)
                 IN [e |-> r.e, count |-> r.count + 1]
            ELSE LET c == ConditionalExpression(e.consequent)
                     a == ConditionalExpression(e.alternate)
                 IN [e |-> Cond(e.test, c.e, a.e), count |-> c.count + a.count]

RECURSIVE VisitStatements(_)
RECURSIVE VisitStatement(_)
RECURSIVE VisitChild(_, _)

\* IfStatement(path), deobfuscator.ts:368-379, for an if statement in a list
\* of statements: the statements that are in its place afterwards
IfStatement(st) ==
    LET s == StaticTest(st.test)
    IN IF s.known
       THEN LET r == VisitStatements(IfBranch(IF s.v THEN st.consequent ELSE st.alternate))
            IN [stmts |-> r.stmts, count |-> r.count + 1]
       ELSE LET c == VisitChild(st.consequent, "consequent")
                a == VisitChild(st.alternate, "alternate")
            IN [stmts |-> <<If(st.test, c.stmt, a.stmt)>>, count |-> c.count + a.count]

\* the traversal of one statement of a list
VisitStatement(st) ==
    CASE st.t = "if"    -> IfStatement(st)
      [] st.t = "block" -> LET r == VisitStatements(st.body)
                           IN [stmts |-> <<Block(r.stmts)>>, count |-> r.count]
      [] st.t = "expr"  -> LET r == ConditionalExpression(st.e)
                           IN [stmts |-> <<ExprStmt(r.e)>>, count |-> r.count]
      [] OTHER          -> [stmts |-> <<st>>, count |-> 0]

VisitStatements(stmts) ==
    IF stmts = <<>> THEN [stmts |-> <<>>, count |-> 0]
    ELSE LET h == VisitStatement(Head(stmts))
             r == VisitStatements(Tail(stmts))
         IN [stmts |-> h.stmts \o r.stmts, count |-> h.count + r.count]

\* the traversal of the consequent or alternate of an if statement that stays:
\* a statement that is not in a list.  There the statements of a block are
\* put in a block of their own, a removed consequent leaves an empty block
\* and a removed alternate leaves none.
VisitChild(st, key) ==
    IF st.t = "if" /\ StaticTest(st.test).known
    THEN LET branch == IF StaticTest(st.test).v THEN st.consequent ELSE st.alternate
         IN IF branch.t = "none"
            THEN [stmt |-> IF key = "consequent" THEN Block(<<>>) ELSE NoStmt, count |-> 1]
            ELSE LET r == VisitChild(branch, key)
                 IN [stmt |-> r.stmt, count |-> r.count + 1]
    ELSE LET r == VisitStatement(st)
         IN [stmt |-> r.stmts[1], count |-> r.count]

\* removeDeadCode(ast) on the statements of a program
removeDeadCodeIn(ast) ==
    LET r == VisitStatements(ast)
    IN [threw |-> FALSE, ast |-> r.stmts, count |-> r.count]

\* the tests, branches and statements of the inputs
EqualityOperators == {"===", "!==", "==", "!="}
Tests ==
    {BoolLit(TRUE), BoolLit(FALSE), Ident("c")}
    \cup {StrCmp(op, "a", r) : op \in EqualityOperators, r \in {"a", "b"}}
Consequents ==
    {Block(<<ExprStmt(Ident("A")), ExprStmt(Ident("B"))>>),
     ExprStmt(Ident("A")),
     Block(<<>>),
     If(BoolLit(FALSE), Block(<<ExprStmt(Ident("C"))>>), NoStmt),
     Block(<<If(BoolLit(TRUE), Block(<<ExprStmt(Ident("C"))>>), NoStmt), ExprStmt(Ident("B"))>>)}
Alternates ==
    {NoStmt,
     Block(<<ExprStmt(Ident("D"))>>),
     ExprStmt(Ident("D")),
     If(BoolLit(TRUE), Block(<<ExprStmt(Ident("E")), ExprStmt(Ident("F"))>>), NoStmt)}
Operands == {Ident("x"), Cond(BoolLit(FALSE), Ident("y"), Ident("z"))}

\* programs: a statement, an if statement or a conditional expression, a statement
DeadCodeInputs ==
    {<<ExprStmt(Ident("P")), st, ExprStmt(Ident("Q"))>> :
        st \in {If(test, c, a) : test \in Tests, c \in Consequents, a \in Alternates}
               \cup {ExprStmt(Cond(test, c, a)) : test \in Tests, c \in Operands, a \in Operands}}

InitDeadCode ==
    /\ mIn \in DeadCodeInputs
    /\ mOut = Pending(mIn)
    /\ PipelineIdle

CallDeadCode ==
    /\ ~mOut.ran
    /\ mOut' = Returned(removeDeadCodeIn(mIn))
    /\ UNCHANGED <<options, source, code, transformsApplied, errors, changed, passes,
                   stringResult, trace, pc, rsIn, rsOut, mIn, run, first, ui>>

NextDeadCode == CallDeadCode

SpecDeadCode == InitDeadCode /\ [][NextDeadCode]_vars

\* the if statement or conditional expression of an input
Subject(ast) == IF ast[2].t = "expr" THEN ast[2].e ELSE ast[2]

RECURSIVE HasTest(_, _)
\* some if statement or conditional expression in the node has a test of kind
HasTest(node, kind) ==
    CASE node.t \in {"if", "cond"} ->
            \/ node.test.t = kind
            \/ HasTest(node.consequent, kind)
            \/ HasTest(node.alternate, kind)
      [] node.t = "block" -> \E i \in DOMAIN node.body : HasTest(node.body[i], kind)
      [] node.t = "expr"  -> HasTest(node.e, kind)
      [] OTHER -> FALSE

\* a branch without a test that removeDeadCode could fold
NothingToFold(node) == ~HasTest(node, "bool") /\ ~HasTest(node, "cmp")

\* what stands in place of the subject when its test has the value v
Collapsed(ast, v) ==
    LET sub    == Subject(ast)
        branch == IF v THEN sub.consequent ELSE sub.alternate
    IN IF sub.t = "cond" THEN <<ast[1], ExprStmt(branch), ast[3]>>
       ELSE IF branch.t = "none" THEN <<ast[1], ast[3]>>
       ELSE IF branch.t = "block" THEN <<ast[1]>> \o branch.body \o <<ast[3]>>
       ELSE <<ast[1], branch, ast[3]>>

SelectedBranch(sub, v) == IF v THEN sub.consequent ELSE sub.alternate

\* C14: an if statement or conditional expression whose test is a boolean
\* literal collapses to the branch the literal selects: the statements of a
\* block are spliced in place of the if statement, an absent alternate removes
\* it, and each collapse adds one to the count.
C14_BooleanTestCollapses ==
    mOut.ran /\ Subject(mIn).test.t = "bool" =>
        LET sub == Subject(mIn)
            v   == sub.test.v
        IN /\ mOut.count >= 1
           /\ mOut.ast[1] = mIn[1] /\ mOut.ast[Len(mOut.ast)] = mIn[3]
           /\ \A i \in DOMAIN mOut.ast :
                ~HasTest(mOut.ast[i], "bool") /\ mOut.ast[i].t # "block"
           /\ NothingToFold(SelectedBranch(sub, v)) =>
                mOut.ast = Collapsed(mIn, v) /\ mOut.count = 1

\* if (true) { A; B; } else ...  became  A; B;
C14_Witness ==
    /\ mOut.ran
    /\ Subject(mIn).t = "if" /\ Subject(mIn).test = BoolLit(TRUE)
    /\ Subject(mIn).consequent.t = "block" /\ Len(Subject(mIn).consequent.body) = 2
    /\ NothingToFold(Subject(mIn).consequent)
    /\ mOut.ast = <<mIn[1]>> \o Subject(mIn).consequent.body \o <<mIn[3]>>
    /\ mOut.count = 1

\* the value of a comparison of two string literals
Compare(test) ==
    IF test.op \in {"===", "=="} THEN test.left = test.right ELSE test.left # test.right

\* a comparison of two string literals with an operator of ops collapses the
\* subject to the branch the comparison selects
ComparisonCollapses(ops) ==
    mOut.ran /\ Subject(mIn).test.t = "cmp" /\ Subject(mIn).test.op \in ops =>
        LET sub == Subject(mIn)
            v   == Compare(sub.test)
        IN /\ mOut.count >= 1
           /\ NothingToFold(SelectedBranch(sub, v)) =>
                mOut.ast = Collapsed(mIn, v) /\ mOut.count = 1

\* C15: a test that compares two string literals with ===, !==, == or != is
\* evaluated and the if statement or conditional expression collapses to the
\* branch it selects, as for a boolean literal.
C15_StringComparisonCollapses == ComparisonCollapses({"===", "!==", "==", "!="})

\* what does hold: the same for the two strict operators
StrictComparisonCollapses == ComparisonCollapses({"===", "!=="})

----------------------------------------------------------------------------
\* replaceProxyFunctions (deobfuscator.ts:298-355) on a program of three
\* scopes: the program (1) and two functions side by side (2 and 3)
\*   decls  : variable declarators  name = { ... }  in source order,
\*            [name, scope, props]; a property is [key, value];
\*            a value is "str" [v] a string literal, "fn" [ret, op] a function
\*            expression whose only statement returns: "binary" / "logical" an
\*            expression with operator op, "callFirst" a call of its first
\*            parameter, "other" anything else; "fnLong" a function
\*            expression with another body
\*   params : other bindings [name, scope]
\*   calls  : call expressions  object.key(args)  [scope, object, key, args, now];
\*            key is [kind, name]: "ident" .name, "string" ["name"],
\*            "computed" [name]; an argument is "arg" [id] or "spread" [id];
\*            now is the node in place of the call
\*   reads  : member expressions  object.key  that are not a callee

ScopeParent == <<0, 1, 1>>

StrValue(v) == [t |-> "str", v |-> v, ret |-> "", op |-> ""]
FnValue(ret, op) == [t |-> "fn", v |-> "", ret |-> ret, op |-> op]
FnLong == [t |-> "fnLong", v |-> "", ret |-> "", op |-> ""]
Prop(key, value) == [key |-> key, value |-> value]
ProxyDecl(name, scope, props) == [name |-> name, scope |-> scope, props |-> props]
Param(name, scope) == [name |-> name, scope |-> scope]
Key(kind, name) == [kind |-> kind, name |-> name]
Arg(id) == [t |-> "arg", id |-> id]
Spread(id) == [t |-> "spread", id |-> id]
Untouched == [t |-> "same", op |-> "", operands |-> <<>>]
ProxyCall(scope, object, key, args) ==
    [scope |-> scope, object |-> object, key |-> key, args |-> args, now |-> Untouched]
MemberRead(scope, object, key) ==
    [scope |-> scope, object |-> object, key |-> key, now |-> Untouched]

\* the classification of a property value, deobfuscator.ts:310-321
Classify(value) ==
    CASE value.t = "str" -> [type |-> "string", operator |-> "", value |-> value.v]
      [] value.t = "fn" /\ value.ret = "binary"    -> [type |-> "binary", operator |-> value.op, value |-> ""]
      [] value.t = "fn" /\ value.ret = "logical"   -> [type |-> "logical", operator |-> value.op, value |-> ""]
      [] value.t = "fn" /\ value.ret = "callFirst" -> [type |-> "call", operator |-> "", value |-> ""]
      [] OTHER -> [type |-> "none", operator |-> "", value |-> ""]

NoInfo == [type |-> "none", operator |-> "", value |-> ""]

\* props.get(key) of one declarator: the last classified property with the key
PropsGet(decl, key) ==
    LET hit == {i \in DOMAIN decl.props :
                    decl.props[i].key = key /\ Classify(decl.props[i].value).type # "none"}
    IN IF hit = {} THEN NoInfo
       ELSE Classify(decl.props[CHOOSE i \in hit : \A j \in hit : j <= i].value)

\* props.size > 0, deobfuscator.ts:324
IsProxyObject(decl) ==
    \E i \in DOMAIN decl.props : Classify(decl.props[i].value).type # "none"

\* proxyObjects.get(objName), deobfuscator.ts:302-328: the map is keyed by
\* the name alone, a later declarator of the same name replaces an earlier
\* one; 0: no entry.  The scope of the use plays no part.
ProxyObjectsGet(ast, objName, scope) ==
    LET hit == {i \in DOMAIN ast.decls :
                    ast.decls[i].name = objName /\ IsProxyObject(ast.decls[i])}
    IN IF hit = {} THEN 0 ELSE CHOOSE i \in hit : \A j \in hit : j <= i

\* const key = ..., deobfuscator.ts:332 and 346; "" stands for null
KeyOf(key) == IF key.kind \in {"ident", "string"} THEN key.name ELSE ""

\* t.binaryExpression / t.logicalExpression / t.callExpression reject a
\* spread element as operand or callee
BuilderThrows(info, args) ==
    \/ info.type \in {"binary", "logical"} /\ Len(args) = 2
       /\ (args[1].t = "spread" \/ args[2].t = "spread")
    \/ info.type = "call" /\ Len(args) >= 1 /\ args[1].t = "spread"

\* CallExpression(path), deobfuscator.ts:331-342
CallExpression(ast, call) ==
    LET d    == ProxyObjectsGet(ast, call.object, call.scope)
        info == IF d = 0 \/ KeyOf(call.key) = "" THEN NoInfo
                ELSE PropsGet(ast.decls[d], KeyOf(call.key))
    IN IF BuilderThrows(info, call.args) THEN [threw |-> TRUE, node |-> call, count |-> 0]
       ELSE IF info.type \in {"binary", "logical"} /\ Len(call.args) = 2
       THEN [threw |-> FALSE, count |-> 1,
             node |-> [call EXCEPT !.now = [t |-> info.type, op |-> info.operator,
                                            operands |-> call.args]]]
       ELSE IF info.type = "call" /\ Len(call.args) >= 1
       THEN [threw |-> FALSE, count |-> 1,
             node |-> [call EXCEPT !.now = [t |-> "call", op |-> "", operands |-> call.args]]]
       ELSE [threw |-> FALSE, node |-> call, count |-> 0]

\* MemberExpression(path), deobfuscator.ts:343-351
MemberExpression(ast, read) ==
    LET d    == ProxyObjectsGet(ast, read.object, read.scope)
        info == IF d = 0 \/ KeyOf(read.key) = "" THEN NoInfo
                ELSE PropsGet(ast.decls[d], KeyOf(read.key))
    IN IF info.type = "string"
       THEN [threw |-> FALSE, count |-> 1,
             node |-> [read EXCEPT !.now = [t |-> "string", op |-> info.value, operands |-> <<>>]]]
       ELSE [threw |-> FALSE, node |-> read, count |-> 0]

\* replaceProxyFunctions(ast) on such a program
replaceProxyFunctionsIn(ast) ==
    LET cs == [i \in DOMAIN ast.calls |-> CallExpression(ast, ast.calls[i])]
        rs == [i \in DOMAIN ast.reads |-> MemberExpression(ast, ast.reads[i])]
        sumC[i \in 0..Len(cs)] == IF i = 0 THEN 0 ELSE sumC[i - 1] + cs[i].count
        sumR[i \in 0..Len(rs)] == IF i = 0 THEN 0 ELSE sumR[i - 1] + rs[i].count
    IN IF \E i \in DOMAIN cs : cs[i].threw
       THEN [threw |-> TRUE, ast |-> ast, count |-> 0]
       ELSE [threw |-> FALSE,
             ast   |-> [ast EXCEPT !.calls = [i \in DOMAIN cs |-> cs[i].node],
                                   !.reads = [i \in DOMAIN rs |-> rs[i].node]],
             count |-> sumC[Len(cs)] + sumR[Len(rs)]]

\* const p = {add: function (a, b) { return a + b; }, and: function (a, b) {
\*   return a && b; }, call: function (f, a) { return f(a); }, s: "str",
\*   odd: function (a) { log(a); return a; }}
Props1 ==
    <<Prop("add", FnValue("binary", "+")), Prop("and", FnValue("logical", "&&")),
      Prop("call", FnValue("callFirst", "")), Prop("s", StrValue("str")),
      Prop("odd", FnLong)>>
\* {add: function (a, b) { return a - b; }}
Props2 == <<Prop("add", FnValue("binary", "-"))>>
\* {odd: function () { return 1; }}: no property is classified
Props3 == <<Prop("odd", FnValue("other", ""))>>

DeclLists ==
    {<<>>,
     <<ProxyDecl("p", 1, Props1)>>,
     <<ProxyDecl("p", 2, Props1)>>,
     <<ProxyDecl("p", 1, Props1), ProxyDecl("p", 2, Props2)>>,
     <<ProxyDecl("p", 1, Props3)>>,
     <<ProxyDecl("q", 1, Props2), ProxyDecl("p", 3, Props1)>>}
ParamLists == {<<>>, <<Param("p", 3)>>}
Keys == {Key("ident", "add"), Key("string", "add"), Key("computed", "add"),
         Key("ident", "and"), Key("ident", "call"), Key("ident", "s"), Key("ident", "odd")}
ArgLists == {<<>>, <<Arg("x")>>, <<Arg("x"), Arg("y")>>, <<Arg("x"), Arg("y"), Arg("z")>>,
             <<Spread("x"), Arg("y")>>}
ProxyCalls ==
    {ProxyCall(sc, o, k, a) : sc \in 1..3, o \in {"p", "q"}, k \in Keys, a \in ArgLists}

\* programs: the declarators, a call under test, p.add(x, y) in the first
\* function, and the reads p.s and p.add in the program scope
ProxyInputs ==
    {in \in {[decls |-> d, params |-> pa,
              calls |-> <<c, ProxyCall(2, "p", Key("ident", "add"), <<Arg("x"), Arg("y")>>)>>,
              reads |-> <<MemberRead(1, "p", Key("ident", "s")),
                          MemberRead(1, "p", Key("ident", "add"))>>] :
                d \in DeclLists, pa \in ParamLists, c \in ProxyCalls} :
        \A i \in DOMAIN in.params : \A j \in DOMAIN in.decls :
            ~(in.params[i].name = in.decls[j].name /\ in.params[i].scope = in.decls[j].scope)}

InitProxy ==
    /\ mIn \in ProxyInputs
    /\ mOut = Pending(mIn)
    /\ PipelineIdle

CallProxy ==
    /\ ~mOut.ran
    /\ mOut' = Returned(replaceProxyFunctionsIn(mIn))
    /\ UNCHANGED <<options, source, code, transformsApplied, errors, changed, passes,
                   stringResult, trace, pc, rsIn, rsOut, mIn, run, first, ui>>

NextProxy == CallProxy

SpecProxy == InitProxy /\ [][NextProxy]_vars

\* the declarator of a Proxy Object that the identifier objName is bound to
\* in scope: the nearest binding of the name, if it is such a declarator; 0: none
BoundProxyObject(ast, objName, scope) ==
    LET bound(sc) == \/ \E i \in DOMAIN ast.decls : ast.decls[i].name = objName /\ ast.decls[i].scope = sc
                     \/ \E i \in DOMAIN ast.params : ast.params[i].name = objName /\ ast.params[i].scope = sc
        at  == IF bound(scope) THEN scope ELSE ScopeParent[scope]
        hit == {i \in DOMAIN ast.decls :
                    /\ ast.decls[i].name = objName /\ ast.decls[i].scope = at
                    /\ IsProxyObject(ast.decls[i])}
    IN IF at = 0 \/ hit = {} THEN 0 ELSE CHOOSE i \in hit : TRUE

\* the node the claim puts in place of a call whose object is bound to d
Inlined(ast, call, d) ==
    LET info == IF d = 0 \/ KeyOf(call.key) = "" THEN NoInfo
                ELSE PropsGet(ast.decls[d], KeyOf(call.key))
    IN IF info.type \in {"binary", "logical"} /\ Len(call.args) = 2
       THEN [t |-> info.type, op |-> info.operator, operands |-> call.args]
       ELSE IF info.type = "call" /\ Len(call.args) >= 1
       THEN [t |-> "call", op |-> "", operands |-> call.args]
       ELSE Untouched

Replacements(out) ==
    Cardinality({i \in DOMAIN out.calls : out.calls[i].now # Untouched})
    + Cardinality({i \in DOMAIN out.reads : out.reads[i].now # Untouched})

\* C16: a call object.key(a, b) becomes a OP b only when object is bound to a
\* Proxy Object whose property key is binary or logical with operator OP and
\* there are exactly two arguments; a call-forwarding property with at least
\* one argument becomes a call of the first argument; every other call, also
\* one on an identifier that only shares the name of a Proxy Object of
\* another scope, is left untouched; the count is the number of replacements.
C16_BoundProxyCallsInlined ==
    mOut.ran /\ ~mOut.threw =>
        /\ \A i \in DOMAIN mIn.calls :
              mOut.ast.calls[i].now =
                  Inlined(mIn, mIn.calls[i],
                          BoundProxyObject(mIn, mIn.calls[i].object, mIn.calls[i].scope))
        /\ mOut.count = Replacements(mOut.ast)

\* what does hold: the same with the object looked up by its name alone
NamedProxyCallsInlined ==
    mOut.ran /\ ~mOut.threw =>
        /\ \A i \in DOMAIN mIn.calls :
              mOut.ast.calls[i].now =
                  Inlined(mIn, mIn.calls[i],
                          ProxyObjectsGet(mIn, mIn.calls[i].object, mIn.calls[i].scope))
        /\ mOut.count = Replacements(mOut.ast)

----------------------------------------------------------------------------
\* More properties of deobfuscate

\* the entries a call of the trace pushes onto transformsApplied
RecordedBy(e) ==
    CASE e.threw -> <<>>
      [] e.phase = "string" -> PushStringTransforms(<<>>, stringResult)
      [] e.phase = "loop" /\ e.op \in Range(MatcherOrder) /\ e.count > 0 /\ Gate(e.op, e.pass) ->
            <<T(Label(e.op), e.count)>>
      [] e.phase = "rename" /\ e.op = "renameHexVariables" /\ e.count > 0 ->
            <<T("Renamed variables", e.count)>>
      [] e.phase = "beautify" /\ e.op = "generate" -> <<T("Beautified output", 0)>>
      [] OTHER -> <<>>

\* everything the phases recorded, in the order they recorded it
Recorded == FlatCat([i \in DOMAIN trace |-> RecordedBy(trace[i])])

NoDuplicates(s) == \A i, j \in DOMAIN s : s[i] = s[j] => i = j

FirstIndex(s, x) == CHOOSE i \in DOMAIN s : s[i] = x /\ \A j \in 1..(i - 1) : s[j] # x

\* res holds every entry of raw once, in the order of their first occurrences
IsFirstOccurrences(res, raw) ==
    /\ NoDuplicates(res)
    /\ Range(res) = Range(raw)
    /\ \A i, j \in DOMAIN res : i < j => FirstIndex(raw, res[i]) < FirstIndex(raw, res[j])

\* the phase an entry comes from: 1 string arrays, 2 the loop, 3 renaming, 4 beautification
PhaseRank(entry) ==
    CASE entry.kind \in {"Resolved encoded strings", "Removed decoder infrastructure nodes"} -> 1
      [] entry.kind = "Renamed variables" -> 3
      [] entry.kind = "Beautified output" -> 4
      [] OTHER -> 2

\* C17: the returned transformsApplied holds no string twice and keeps the
\* entries in the order the phases first recorded them: string-array entries,
\* loop entries in pass and matcher order, renaming, beautification.
C17_DedupedInRecordingOrder ==
    pc = "done" =>
        /\ IsFirstOccurrences(transformsApplied, Recorded)
        /\ \A i, j \in DOMAIN transformsApplied :
              i < j => PhaseRank(transformsApplied[i]) <= PhaseRank(transformsApplied[j])

\* a run whose phases recorded some string more than once
C17_Witness ==
    /\ pc = "done"
    /\ Len(Recorded) > Len(transformsApplied)
    /\ Len(transformsApplied) >= 2

BeautifyFailed == \E i \in DOMAIN trace : trace[i].phase = "beautify" /\ trace[i].threw
BeautifySucceeded ==
    \E i \in DOMAIN trace : trace[i].phase = "beautify" /\ trace[i].op = "generate"
Beautified == T("Beautified output", 0)
Occurrences(s, x) == Cardinality({i \in DOMAIN s : s[i] = x})

\* C19: a failing beautify phase adds nothing to errors, records no
\* "Beautified output" and leaves code as it was; a succeeding one records
\* "Beautified output" exactly once.
C19_BeautifyFailureSilent ==
    /\ [][pc = "beautify" /\ options.beautifyOutput =>
            IF parse(code).threw
            THEN errors' = errors /\ transformsApplied' = transformsApplied /\ code' = code
            ELSE transformsApplied' = Append(transformsApplied, Beautified)]_vars
    /\ [](pc \in {"return", "done"} =>
            /\ BeautifyFailed => Occurrences(transformsApplied, Beautified) = 0
            /\ BeautifySucceeded => Occurrences(transformsApplied, Beautified) = 1)

\* a run whose loop and beautification failed to parse, with renaming off:
\* the only entry of errors is the loop's
C19_Witness ==
    /\ pc = "done"
    /\ BeautifyFailed
    /\ ~options.renameVariables
    /\ Len(errors) = 1 /\ errors[1].kind = "Parse error"
    /\ Beautified \notin Range(transformsApplied)

\* C18: deobfuscate run again, with the same Configuration, on the code
\* returned by a run whose loop ended because no matcher reported a change
\* records nothing but "Beautified output" at most and returns the same code.
C18_SecondRunIdle ==
    run = 2 /\ pc = "done" /\ first.exhausted =>
        /\ Range(transformsApplied) \subseteq {Beautified}
        /\ code = first.code

\* what does hold: the same for a program without a decoder call whose
\* argument the loop turns into a literal
SecondRunIdleUnlessFolded ==
    run = 2 /\ pc = "done" /\ first.exhausted
    /\ (\A i \in DOMAIN trace : trace[i].phase = "string" => trace[i].count = 0) =>
        /\ Range(transformsApplied) \subseteq {Beautified}
        /\ code = first.code

----------------------------------------------------------------------------
\* More properties of resolveStringArrays

\* the (provider, decoder) pairs a call site belongs to: its callee is the
\* decoder or a variable initialised to it
PairsOf(sa, c) ==
    {ad \in Providers(sa) \X DOMAIN sa.funcs :
        ad[2] \in DecodersByText(sa, ad[1]) /\ c.callee \in DirectAliases(sa, ad[2])}

Evaluated(c) == \A k \in DOMAIN c.args : ArgValue(c.args[k]).ok

\* the evaluation of the fragment of pair ad for call site c
Evaluation(sa, ad, c) ==
    LET rs == RotationsByText(sa, ad[1])
    IN Eval(sa.funcs[ad[1]],
            IF rs = {} THEN <<>> ELSE <<sa.iifes[CHOOSE x \in rs : \A y \in rs : x <= y]>>,
            sa.funcs[ad[2]],
            [k \in DOMAIN c.args |-> ArgValue(c.args[k]).v])

\* the evaluation throws or returns something that is not a string
Fails(sa, ad, c) == Evaluation(sa, ad, c).threw \/ ~Evaluation(sa, ad, c).isString

\* C20: a fragment evaluation that throws or returns a non-string leaves its
\* call expression unchanged and adds nothing to replacements; every other
\* collected call site, of the same and of other pairs, is still evaluated
\* and resolved.
C20_FailedEvaluationIsolated ==
    (rsOut.ran /\ ~rsOut.threw) =>
        LET sa  == rsIn.sa
            out == rsOut.code.sa.calls
        IN /\ \A i \in DOMAIN sa.calls :
                /\ (PairsOf(sa, sa.calls[i]) # {} /\ Evaluated(sa.calls[i])
                    /\ \A ad \in PairsOf(sa, sa.calls[i]) : Fails(sa, ad, sa.calls[i]))
                   => out[i] = sa.calls[i]
                /\ (Evaluated(sa.calls[i])
                    /\ \E ad \in PairsOf(sa, sa.calls[i]) : ~Fails(sa, ad, sa.calls[i]))
                   => out[i].done
           /\ rsOut.replacements = Cardinality({i \in DOMAIN out : out[i].done})

\* an evaluation that threw, before a call site of the same pair that was resolved
C20_Witness ==
    /\ rsOut.ran
    /\ \E i, j \in DOMAIN rsIn.sa.calls :
          /\ i < j
          /\ Evaluated(rsIn.sa.calls[i])
          /\ \E ad \in PairsOf(rsIn.sa, rsIn.sa.calls[i]) :
                /\ Evaluation(rsIn.sa, ad, rsIn.sa.calls[i]).threw
                /\ ad \in PairsOf(rsIn.sa, rsIn.sa.calls[j])
          /\ rsOut.code.sa.calls[i] = rsIn.sa.calls[i]
          /\ rsOut.code.sa.calls[j].done
    /\ rsOut.replacements = 1

\* an argument of one of the three shapes of deobfuscator.ts:260-262
LiteralShape(arg) == arg.t \in {"num", "str", "neg"}

\* C21: a decoder call is evaluated only when every argument is a numeric
\* literal, a string literal or a unary minus applied to a numeric literal; a
\* call with an argument of another shape is left exactly as it was and is not
\* counted in replacements.
C21_UnresolvableCallsSkipped ==
    (rsOut.ran /\ ~rsOut.threw) =>
        LET in  == rsIn.sa.calls
            out == rsOut.code.sa.calls
        IN /\ \A i \in DOMAIN in :
                (\E k \in DOMAIN in[i].args : ~LiteralShape(in[i].args[k])) => out[i] = in[i]
           /\ rsOut.replacements =
                 Cardinality({i \in DOMAIN in :
                                /\ out[i].done
                                /\ \A k \in DOMAIN in[i].args : LiteralShape(in[i].args[k])})

\* dec(1, x) was skipped and dec(-1), of the decoder that negates its
\* argument, was evaluated and replaced
C21_Witness ==
    /\ rsOut.ran
    /\ rsOut.replacements = 1
    /\ \E i, j \in DOMAIN rsIn.sa.calls :
          /\ rsIn.sa.calls[i].args = <<Num(1), NonLiteral>>
          /\ PairsOf(rsIn.sa, rsIn.sa.calls[i]) # {}
          /\ rsOut.code.sa.calls[i] = rsIn.sa.calls[i]
          /\ rsIn.sa.calls[j].args = <<Neg(1)>>
          /\ rsOut.code.sa.calls[j].done
          /\ rsOut.code.sa.calls[j].val = "b"

RECURSIVE AliasClosure(_, _)
\* the least set that contains N and every variable initialised to one of its
\* names
AliasClosure(sa, N) == IF Grow(sa, N) = N THEN N ELSE AliasClosure(sa, Grow(sa, N))

\* the alias set the resolver builds for the decoder named name, on the tree
\* as parsed
AliasSetOf(sa, name) == decoderNames(sa, [goneA |-> {}], name)

\* C22: the alias set built for a decoder is the closure: the decoder's name
\* and every variable whose initializer is a bare reference to a name of the
\* set, for chains of any depth and any order of the alias declarations.
C22_AliasSetIsClosure ==
    (rsOut.ran /\ ~rsOut.threw) =>
        \A dec \in Range(decoderFuncs(rsIn.sa)) :
            AliasSetOf(rsIn.sa, rsIn.sa.funcs[dec.idx].name)
                = AliasClosure(rsIn.sa, {rsIn.sa.funcs[dec.idx].name})

\* every alias is declared after the name it is initialised to
DeclaredInChainOrder(sa, name) ==
    \A i \in DOMAIN sa.aliases :
        \/ sa.aliases[i].init = name
        \/ \E j \in 1..(i - 1) : sa.aliases[j].id = sa.aliases[i].init
        \/ sa.aliases[i].init \notin AliasClosure(sa, {name})

\* the part of C22 that holds: one traversal finds the closure when the
\* declarations come in the order of the chain
ChainOrderClosed ==
    (rsOut.ran /\ ~rsOut.threw) =>
        \A dec \in Range(decoderFuncs(rsIn.sa)) :
            DeclaredInChainOrder(rsIn.sa, rsIn.sa.funcs[dec.idx].name) =>
                AliasSetOf(rsIn.sa, rsIn.sa.funcs[dec.idx].name)
                    = AliasClosure(rsIn.sa, {rsIn.sa.funcs[dec.idx].name})

\* C23: no function is classified both as an array-provider and as a decoder,
\* also when the source has several providers and the text of one mentions
\* the name of another.
C23_DecodersAreNotProviders ==
    (rsOut.ran /\ ~rsOut.threw) =>
        \A dec \in Range(decoderFuncs(rsIn.sa)) :
            dec.idx \notin Range(stringArrayFuncs(rsIn.sa))

\* the part of C23 that holds: no function is collected as the decoder of
\* itself
NoProviderDecodesItself ==
    (rsOut.ran /\ ~rsOut.threw) =>
        \A dec \in Range(decoderFuncs(rsIn.sa)) :
            rsIn.sa.funcs[dec.idx].name # dec.arrayFuncName

\* the first index of a set of positions, NoRotation if there is none
FirstOf(S) == IF S = {} THEN NoRotation ELSE CHOOSE x \in S : \A y \in S : x <= y

\* the rotation fragments of provider a that are statements of the program
TopLevelRotations(sa, a) == {r \in RotationsByText(sa, a) : sa.iifes[r].top}

\* C24: the rotation fragment used for a provider is the first, in source
\* order, top-level expression statement that is an immediately-invoked
\* function expression whose text contains the provider's name, push and
\* shift, for every provider of a source with several providers and several
\* fragments; a nested expression statement is never chosen.
C24_FirstTopLevelFragmentUsed ==
    (rsOut.ran /\ ~rsOut.threw) =>
        \A a \in Providers(rsIn.sa) :
            DecodersByText(rsIn.sa, a) # {} =>
                FindRotation(rsIn.sa, rsIn.sa.funcs[a].name)
                    = FirstOf(TopLevelRotations(rsIn.sa, a))

\* the part of C24 that holds: with one provider the fragment used is the
\* first matching expression statement the traversal meets, at any depth
FirstMatchingFragmentUsed ==
    (rsOut.ran /\ ~rsOut.threw) =>
        \A a \in Providers(rsIn.sa) :
            (Cardinality(Providers(rsIn.sa)) = 1 /\ DecodersByText(rsIn.sa, a) # {}) =>
                FindRotation(rsIn.sa, rsIn.sa.funcs[a].name) = FirstOf(RotationsByText(rsIn.sa, a))

\* several providers: the fragment used is the first of the collected list
\* that mentions the provider, not the first of the source
C24_ListOrder ==
    /\ rsOut.ran
    /\ \E a \in Providers(rsIn.sa) :
          /\ DecodersByText(rsIn.sa, a) # {}
          /\ \A r \in RotationsByText(rsIn.sa, a) : rsIn.sa.iifes[r].top
          /\ FindRotation(rsIn.sa, rsIn.sa.funcs[a].name) # FirstOf(RotationsByText(rsIn.sa, a))

\* C26: the resolver never removes a decoder or its provider while a call of
\* that decoder or of one of its aliases remains unreplaced: every decoder
\* call left in the returned code still has both declarations.
C26_RemainingCallsKeepDeclarations ==
    (rsOut.ran /\ ~rsOut.threw) =>
        \A a \in Providers(rsIn.sa) : \A d \in DecodersByText(rsIn.sa, a) :
            \A i \in DOMAIN rsIn.sa.calls :
                (/\ rsIn.sa.calls[i].callee \in AliasClosure(rsIn.sa, {rsIn.sa.funcs[d].name})
                 /\ ~rsOut.code.sa.calls[i].done) =>
                    /\ rsIn.sa.funcs[a] \in Range(rsOut.code.sa.funcs)
                    /\ rsIn.sa.funcs[d] \in Range(rsOut.code.sa.funcs)

\* what holds instead: provider and decoder of every pair are removed,
\* whatever became of the calls
PairsAlwaysRemoved ==
    (rsOut.ran /\ ~rsOut.threw) =>
        \A a \in Providers(rsIn.sa) : \A d \in DecodersByText(rsIn.sa, a) :
            /\ rsIn.sa.funcs[a] \notin Range(rsOut.code.sa.funcs)
            /\ rsIn.sa.funcs[d] \notin Range(rsOut.code.sa.funcs)

----------------------------------------------------------------------------
\* simplifyExpressions (deobfuscator.ts:384-418) on one expression.
\* A node is [k, ...]: "num" a numeric literal (v its value, hex: extra.raw
\* starts with 0x), "arr" an array expression of n elements, "id", "bool",
\* "un" a unary and "bin" a binary expression.  A value is [n, d], the number
\* n / d in lowest terms; d = 0 is Infinity (n = 1) or NaN (n = 0).

MaxLiteral == 3

Value(n, d) == [n |-> n, d |-> d]
Lit(v, hex) == [k |-> "num", v |-> Value(v, 1), hex |-> hex]
Arr(n) == [k |-> "arr", n |-> n]
Id(name) == [k |-> "id", name |-> name]
Bool(b) == [k |-> "bool", b |-> b]
Unary(op, arg) == [k |-> "un", op |-> op, arg |-> arg]
Binary(op, l, r) == [k |-> "bin", op |-> op, l |-> l, r |-> r]

RECURSIVE Gcd(_, _)
Gcd(a, b) == IF b = 0 THEN a ELSE Gcd(b, a % b)

\* the quotient a / b of two numbers a >= 0, b >= 0 as JavaScript computes it
Quotient(a, b) ==
    IF b = 0 THEN Value(IF a = 0 THEN 0 ELSE 1, 0)
    ELSE Value(a \div Gcd(a, b), b \div Gcd(a, b))

Undefined == [isNumber |-> FALSE, v |-> Value(0, 0)]
Number(v) == [isNumber |-> TRUE, v |-> v]

\* the switch with a case for the remainder operator too
Arithmetic_withRemainder(op, a, b) ==
    CASE op = "+" -> Number(Value(a + b, 1))
      [] op = "-" -> Number(Value(a - b, 1))
      [] op = "*" -> Number(Value(a * b, 1))
      [] op = "/" -> Number(Quotient(a, b))
      [] op = "%" -> Number(IF b = 0 THEN Value(0, 0) ELSE Value(a % b, 1))
      [] OTHER    -> Undefined

\* deobfuscator.ts:401-407: res after the switch on the operator
Arithmetic(op, a, b) ==
    CASE op = "+" -> Number(Value(a + b, 1))
      [] op = "-" -> Number(Value(a - b, 1))
      [] op = "*" -> Number(Value(a * b, 1))
      [] op = "/" -> Number(Quotient(a, b))
      [] OTHER    -> Undefined

EmptyArray(e) == e.k = "arr" /\ e.n = 0

RECURSIVE Visit(_)

\* deobfuscator.ts:387-398
UnaryExpression(e) ==
    LET inside == [ast |-> Unary(e.op, Visit(e.arg).ast), count |-> Visit(e.arg).count]
    IN IF e.op = "!" /\ EmptyArray(e.arg)
       THEN [ast |-> Bool(FALSE), count |-> 1]
       ELSE IF e.op = "!" /\ e.arg.k = "un" /\ e.arg.op = "!"
       THEN IF EmptyArray(e.arg.arg) THEN [ast |-> Bool(TRUE), count |-> 1] ELSE inside
       ELSE IF e.op = "void" /\ e.arg.k = "num" /\ e.arg.v = Value(0, 1)
       THEN [ast |-> Id("undefined"), count |-> 1]
       ELSE inside

\* deobfuscator.ts:399-410
BinaryExpression(e) ==
    LET res    == Arithmetic(e.op, e.l.v.n, e.r.v.n)
        inside == [ast |-> Binary(e.op, Visit(e.l).ast, Visit(e.r).ast),
                   count |-> Visit(e.l).count + Visit(e.r).count]
    IN IF e.l.k = "num" /\ e.r.k = "num" /\ res.isNumber
       THEN [ast |-> [k |-> "num", v |-> res.v, hex |-> FALSE], count |-> 1]
       ELSE inside

\* deobfuscator.ts:411-415
NumericLiteral(e) ==
    IF e.hex THEN [ast |-> [e EXCEPT !.hex = FALSE], count |-> 1]
    ELSE [ast |-> e, count |-> 0]

\* the traversal: a visitor runs when its node is entered; a node that was
\* replaced is not entered, and the node put in its place has nothing to fold
Visit(e) ==
    CASE e.k = "un"  -> UnaryExpression(e)
      [] e.k = "bin" -> BinaryExpression(e)
      [] e.k = "num" -> NumericLiteral(e)
      [] OTHER       -> [ast |-> e, count |-> 0]

\* deobfuscator.ts:384-418
simplifyExpressionsIn(ast) ==
    [threw |-> FALSE, ast |-> Visit(ast).ast, count |-> Visit(ast).count]

Literals  == {Lit(v, hex) : v \in 0..MaxLiteral, hex \in BOOLEAN}
Leaves    == Literals \cup {Arr(0), Arr(1), Id("x")}
UnaryOperators  == {"!", "void", "-"}
BinaryOperators == {"+", "-", "*", "/", "%"}
Unaries   == {Unary(op, e) : op \in UnaryOperators, e \in Leaves}
Binaries  == {Binary(op, l, r) : op \in BinaryOperators, l \in Leaves, r \in Leaves}

\* the expressions simplifyExpressions is run on, on its own
SimplifierInputs ==
    Leaves \cup Unaries \cup Binaries
        \cup {Unary(op, e) : op \in UnaryOperators, e \in Unaries \cup Binaries}
        \cup {Binary(op, l, r) : op \in {"+", "%"}, l \in Unaries, r \in Leaves}
        \cup {Binary(op, l, Lit(1, FALSE)) : op \in {"+", "%"}, l \in Binaries}

InitSimplifier ==
    /\ mIn \in SimplifierInputs
    /\ mOut = Pending(mIn)
    /\ PipelineIdle

CallSimplifier ==
    /\ ~mOut.ran
    /\ mOut' = Returned(simplifyExpressionsIn(mIn))
    /\ UNCHANGED <<options, source, code, transformsApplied, errors, changed, passes,
                   stringResult, trace, pc, rsIn, rsOut, mIn, run, first, ui>>

NextSimplifier == CallSimplifier

SpecSimplifier == InitSimplifier /\ [][NextSimplifier]_vars

\* Properties of simplifyExpressions

FoldedOperators == {"+", "-", "*", "/"}

\* e is a binary + - * / between two numeric literals
IsFoldable(e) ==
    e.k = "bin" /\ e.op \in FoldedOperators /\ e.l.k = "num" /\ e.r.k = "num"

\* out is the numeric literal of the value of the foldable expression e
IsValueOf(e, out) ==
    LET a == e.l.v.n
        b == e.r.v.n
    IN /\ out.k = "num"
       /\ CASE e.op = "+" -> out.v.d = 1 /\ out.v.n = a + b
            [] e.op = "-" -> out.v.d = 1 /\ out.v.n + b = a
            [] e.op = "*" -> out.v.d = 1 /\ out.v.n = a * b
            [] e.op = "/" -> IF b = 0 THEN out.v.d = 0 /\ (out.v.n = 0 <=> a = 0)
                             ELSE out.v.d > 0 /\ out.v.n * b = a * out.v.d

\* e is one of the four idioms and out is what replaces it
IsFoldOf(e, out) ==
    \/ IsFoldable(e) /\ IsValueOf(e, out)
    \/ e = Unary("!", Arr(0)) /\ out = Bool(FALSE)
    \/ e = Unary("!", Unary("!", Arr(0))) /\ out = Bool(TRUE)
    \/ e.k = "un" /\ e.op = "void" /\ e.arg.k = "num" /\ e.arg.v = Value(0, 1)
          /\ out = Id("undefined")

IsIdiom(e) ==
    \/ IsFoldable(e)
    \/ e \in {Unary("!", Arr(0)), Unary("!", Unary("!", Arr(0)))}
    \/ e.k = "un" /\ e.op = "void" /\ e.arg.k = "num" /\ e.arg.v = Value(0, 1)

\* an operand the simplifier has no rule for
NothingToSimplify(e) == e.k \in {"arr", "id", "bool"} \/ (e.k = "num" /\ ~e.hex)

\* operand e of an expression that is kept came out as out, with n rewrites
\* counted for it, or the claim says nothing about it (a hexadecimal literal,
\* a deeper expression)
OperandAsClaimed(e, out) ==
    /\ IsIdiom(e) => IsFoldOf(e, out)
    /\ NothingToSimplify(e) => out = e

Settled(e) == IsIdiom(e) \/ NothingToSimplify(e)
Rewrites(e) == IF IsIdiom(e) THEN 1 ELSE 0

\* C25: a binary + - * / between two numeric literals is replaced by the
\* numeric literal of the computed value, ![] by false, !![] by true and
\* void 0 by the identifier undefined; each replacement adds one to the
\* returned count; a binary expression with another operator or an operand
\* that is not a numeric literal is kept as it is, only its operands being
\* simplified in their turn.
C25_ExpressionsFolded ==
    (mOut.ran /\ ~mOut.threw) =>
        /\ IsIdiom(mIn) => IsFoldOf(mIn, mOut.ast) /\ mOut.count = 1
        /\ (mIn.k = "bin" /\ ~IsFoldable(mIn)) =>
              /\ mOut.ast.k = "bin"
              /\ mOut.ast.op = mIn.op
              /\ OperandAsClaimed(mIn.l, mOut.ast.l)
              /\ OperandAsClaimed(mIn.r, mOut.ast.r)
              /\ (Settled(mIn.l) /\ Settled(mIn.r)) =>
                    mOut.count = Rewrites(mIn.l) + Rewrites(mIn.r)

\* 3 / 2 was folded to the literal 1.5
C25_Witness ==
    /\ mOut.ran
    /\ mIn = Binary("/", Lit(3, FALSE), Lit(2, FALSE))
    /\ mOut.ast = [k |-> "num", v |-> Value(3, 2), hex |-> FALSE]
    /\ mOut.count = 1

\* (2 - 3) % 1: the remainder is kept, its left operand folded to -1
C25_KeptWithFoldedOperand ==
    /\ mOut.ran
    /\ mIn = Binary("%", Binary("-", Lit(2, FALSE), Lit(3, FALSE)), Lit(1, FALSE))
    /\ mOut.ast = Binary("%", [k |-> "num", v |-> Value(0 - 1, 1), hex |-> FALSE], Lit(1, FALSE))
    /\ mOut.count = 1

----------------------------------------------------------------------------
\* Properties of the loop of deobfuscate

SixOff == \A m \in LoopMatchers : ~options[m]

\* the text the first pass parses
LoopInput ==
    IF stringResult.ran /\ ~stringResult.threw THEN CarryForward(source, stringResult)
    ELSE source

LoopOver == pc \notin {"phase1", "loop"}

\* C27: the loop runs at least one pass on every invocation; with the six
\* loop toggles off it runs exactly one pass, which calls no matcher and adds
\* no matcher entry, and code is then the regenerated text of the parsed input,
\* or the parse error of pass 1 is recorded.
C27_OnePassWithLoopTogglesOff ==
    /\ LoopOver => passes >= 1 /\ Started(1)
    /\ (LoopOver /\ SixOff) =>
          /\ passes = 1
          /\ ~Started(2)
          /\ \A m \in LoopMatchers : NoCall(m) /\ NoEntry({Label(m)})
    /\ (pc = "rename" /\ SixOff) =>
          IF parse(LoopInput).threw
          THEN Err("Parse error", 1) \in Range(errors) /\ code = LoopInput
          ELSE code = generate(parse(LoopInput).ast) /\ errors = <<>>

\* a text with work for four matchers went through one pass with the six
\* toggles off and came out regenerated
C27_Witness ==
    /\ pc = "rename"
    /\ SixOff
    /\ passes = 1
    /\ Len(source.items) = 4
    /\ source.fmt = "raw"
    /\ code = [source EXCEPT !.fmt = "gen"]
    /\ transformsApplied = <<>>

\* the passes in which the claim has matcher m record its entry
RecordedInPass(m, k) ==
    CASE m \in {"simplifyExpressions", "simplifyObjectAccess", "decodeHexUnicode"} -> k = 1
      [] m \in {"replaceProxyFunctions", "removeDeadCode"} -> k \in {1, 2}
      [] m = "undoControlFlowFlattening" -> TRUE

\* the count matcher m returned in pass k of the calls tr, 0 if it was not
\* called or threw
CountIn(tr, m, k) ==
    LET hit == {i \in DOMAIN tr : InPass(tr[i], k) /\ tr[i].op = m /\ ~tr[i].threw}
    IN IF hit = {} THEN 0 ELSE tr[CHOOSE i \in hit : TRUE].count

\* pass k of tr ran to its generate call, and that call returned a new text
FinishedIn(tr, k) == \E i \in DOMAIN tr : InPass(tr[i], k) /\ tr[i].op = "generate"
NewTextIn(tr, k) ==
    \E i \in DOMAIN tr : InPass(tr[i], k) /\ tr[i].op = "generate" /\ ~tr[i].same

\* the kinds of the entries ta holds from index n + 1 on
KindsAfter(ta, n) == {ta[i].kind : i \in (n + 1)..Len(ta)}

\* C28: a pass records the entry of a matcher with a count above zero only in
\* the passes of its gate (Simplified, object accesses, hex/unicode: pass 1;
\* proxy and dead code: passes 1 and 2; Unflattened: any pass), and changed
\* after the pass does not look at the gate: it is true exactly when some
\* matcher returned a count above zero and the text is new.
C28_EntriesGatedByPass ==
    [][passes' = passes + 1 =>
          /\ SubSeq(transformsApplied', 1, Len(transformsApplied)) = transformsApplied
          /\ \A m \in LoopMatchers :
                Label(m) \in KindsAfter(transformsApplied', Len(transformsApplied))
                    <=> (CountIn(trace', m, passes') > 0 /\ RecordedInPass(m, passes'))
          /\ FinishedIn(trace', passes') =>
                (changed' <=> /\ \E m \in LoopMatchers : CountIn(trace', m, passes') > 0
                              /\ NewTextIn(trace', passes'))
      ]_vars

\* the simplifier counted rewrites in passes 1, 2 and 3, one entry was
\* recorded, and the loop went on after pass 2
C28_Witness ==
    /\ pc = "rename"
    /\ \A k \in 1..3 : CountIn(trace, "simplifyExpressions", k) > 0
    /\ Cardinality({i \in DOMAIN transformsApplied :
                       transformsApplied[i].kind = "Simplified expressions"}) = 1
    /\ Started(3)

----------------------------------------------------------------------------
\* The page (src/unnamed/part_002, Home): the state the runs of handleProcess
\* read and write, and the position of each run.  A run is a call of
\* handleProcess; it is suspended at the await of the timer (line 88) and, in
\* obfuscator mode, at the await of obfuscateCode (line 101).
\*   stage : "none" not called, "refused" returned at line 81, "timer" and
\*           "library" suspended at an await, "done" past the finally block
\*   mode  : the mode the callback was created with
\*   by    : "button" the onClick of line 421, "shortcut" the keydown handler

MaxRuns == 2

Runs == 1..MaxRuns
Modes == {"deobfuscator", "obfuscator"}
\* the texts of the input editor: empty, blanks only, some code
Inputs == {"", "  ", "code"}
trim(text) == IF text = "  " THEN "" ELSE text

NoRun == [stage |-> "none", mode |-> "", by |-> ""]

\* part_002:36-45, the initial state of Home
InitialPage ==
    [mode       |-> "deobfuscator",
     input      |-> [m \in Modes |-> ""],
     output     |-> [m \in Modes |-> ""],
     processing |-> FALSE,
     result     |-> "null",
     toast      |-> "none",
     runs       |-> [r \in Runs |-> NoRun]]

InitPage ==
    /\ ui = InitialPage
    /\ mIn = NoTree
    /\ mOut = Pending(NoTree)
    /\ options = AllOn
    /\ source = Idle
    /\ code = Idle
    /\ transformsApplied = <<>>
    /\ errors = <<>>
    /\ changed = TRUE
    /\ passes = 0
    /\ stringResult = NotRun(Idle)
    /\ trace = <<>>
    /\ pc = "idle"
    /\ rsIn = Idle
    /\ rsOut = NotRun(Idle)
    /\ run = 1
    /\ first = NoFirst

PageOnly ==
    UNCHANGED <<options, source, code, transformsApplied, errors, changed, passes,
                stringResult, trace, pc, rsIn, rsOut, mIn, mOut, run, first>>

\* the next call of handleProcess
NextRun == CHOOSE r \in Runs : ui.runs[r] = NoRun /\ \A q \in Runs : ui.runs[q] = NoRun => r <= q

\* part_002:77-88, handleProcess up to its first await: the page it leaves
handleProcess(by) ==
    IF trim(ui.input[ui.mode]) = ""
    THEN [ui EXCEPT !.toast = "error",
                    !.runs[NextRun] = [stage |-> "refused", mode |-> ui.mode, by |-> by]]
    ELSE [ui EXCEPT !.processing = TRUE,
                    !.result = "null",
                    !.runs[NextRun] = [stage |-> "timer", mode |-> ui.mode, by |-> by]]

\* part_002:420-422: the button, disabled while processing
ClickProcess ==
    /\ ~ui.processing
    /\ \E r \in Runs : ui.runs[r] = NoRun
    /\ ui' = handleProcess("button")
    /\ PageOnly

\* part_002:200-210: Ctrl/Cmd+Enter
Shortcut ==
    /\ \E r \in Runs : ui.runs[r] = NoRun
    /\ ui' = handleProcess("shortcut")
    /\ PageOnly

\* part_002:88-115 in deobfuscator mode: the timer fires and the run goes to
\* its end; outcome: deobfuscate returned without or with errors
\* part_002:88-101 in obfuscator mode: the run is suspended again
TimerFires ==
    /\ \E r \in Runs :
          /\ ui.runs[r].stage = "timer"
          /\ IF ui.runs[r].mode = "deobfuscator"
             THEN \E outcome \in {"success", "info"} :
                     ui' = [ui EXCEPT !.output["deobfuscator"] = "code",
                                      !.result = outcome,
                                      !.toast = outcome,
                                      !.processing = FALSE,
                                      !.runs[r].stage = "done"]
             ELSE ui' = [ui EXCEPT !.runs[r].stage = "library"]
    /\ PageOnly

\* part_002:101-115: obfuscateCode resolved, without or with an error
LibraryReturns ==
    /\ \E r \in Runs :
          /\ ui.runs[r].stage = "library"
          /\ \E outcome \in {"success", "error"} :
                ui' = [ui EXCEPT !.output["obfuscator"] = IF outcome = "error" THEN "" ELSE "code",
                                 !.result = outcome,
                                 !.toast = outcome,
                                 !.processing = FALSE,
                                 !.runs[r].stage = "done"]
    /\ PageOnly

\* part_002:66 and 410: the editor's onChange
SetInputCode ==
    /\ \E text \in Inputs : ui' = [ui EXCEPT !.input[ui.mode] = text]
    /\ PageOnly

\* part_002:290 and 302
SetMode ==
    /\ \E m \in Modes : ui' = [ui EXCEPT !.mode = m]
    /\ PageOnly

NextPage ==
    \/ ClickProcess
    \/ Shortcut
    \/ TimerFires
    \/ LibraryReturns
    \/ SetInputCode
    \/ SetMode

SpecPage == InitPage /\ [][NextPage]_vars

\* Properties of the page

InFlight == {r \in Runs : ui.runs[r].stage \in {"timer", "library"}}

\* C29: processing is true as long as a run of handleProcess is in flight and
\* false once none is, also when the shortcut starts a second run while an
\* earlier one is in flight; a run on empty or blank input never sets it.
C29_ProcessingWhileInFlight ==
    /\ [](ui.processing <=> InFlight # {})
    /\ [][\A r \in Runs :
             (ui.runs[r].stage = "none" /\ ui'.runs[r].stage = "refused") =>
                 ui'.processing = ui.processing]_vars

\* the part of C29 that holds: processing is false when no run is in flight,
\* and a refused run leaves it as it is
IdlePageNotProcessing ==
    /\ InFlight = {} => ~ui.processing
    /\ \A r \in Runs : (\A q \in Runs \ {r} : ui.runs[q] = NoRun) =>
            (ui.processing <=> r \in InFlight)

\* a run started by the shortcut is in flight and processing is false
C29_FlagDropped ==
    /\ ~ui.processing
    /\ \E r \in InFlight : ui.runs[r].by = "shortcut"

----------------------------------------------------------------------------
\* obfuscateCode (src/unnamed/part_001:39-81) and the library it loads.
\* The library is what the call meets: the import fails, obfuscate throws, or
\* obfuscate returns a result.  What is thrown is an object with a message
\* (an Error; the message may be empty) or a value without one.

\* controlFlowFlatteningThreshold when flattening is on, in hundredths
FlatteningThreshold == 75

Thrown(hasMessage, message) == [hasMessage |-> hasMessage, message |-> message]

\* e.message, undefined as the empty string
CatchMessage_raw(e) == IF e.hasMessage THEN e.message ELSE ""

\* e.message || 'Obfuscation failed', part_001:78
CatchMessage(e) ==
    IF e.hasMessage /\ e.message # "" THEN e.message ELSE "Obfuscation failed"

\* part_001:49-65, the fields that are not copied as they are
obfuscatorConfig(opts) ==
    [compact                        |-> opts.compact,
     controlFlowFlattening          |-> opts.controlFlowFlattening,
     controlFlowFlatteningThreshold |->
         IF opts.controlFlowFlattening THEN FlatteningThreshold ELSE 0,
     identifierNamesGenerator       |-> opts.variableRenaming,
     stringArray                    |-> TRUE,
     stringArrayEncoding            |->
         IF opts.stringArrayEncoding = "none" THEN <<>>
         ELSE <<opts.stringArrayEncoding>>,
     stringArrayRotate              |-> opts.stringArrayRotation,
     target                         |-> "browser"]

NoConfig == <<>>

\* part_001:74-80
Caught(e, config) ==
    [settled |-> "resolved", config |-> config,
     result |-> [code |-> "", hasError |-> TRUE, error |-> CatchMessage(e)]]

\* part_001:39-81: how the promise settles, the configuration obfuscate was
\* called with, and the record
obfuscateCode(src, opts, library) ==
    IF library.import = "rejects" THEN Caught(library.thrown, NoConfig)
    ELSE IF library.obfuscate = "throws"
    THEN Caught(library.thrown, obfuscatorConfig(opts))
    ELSE [settled |-> "resolved", config |-> obfuscatorConfig(opts),
          result |-> [code |-> library.code, hasError |-> FALSE, error |-> ""]]

\* ObfuscatorOptions, part_001:3-16
ObfuscatorOptionSets ==
    [stringArrayEncoding   : {"none", "base64", "rc4"},
     stringArrayRotation   : BOOLEAN,
     controlFlowFlattening : BOOLEAN,
     variableRenaming      : {"hexadecimal", "mangled"},
     compact               : BOOLEAN]

Throwables == {Thrown(TRUE, "Unexpected token"), Thrown(TRUE, ""), Thrown(FALSE, "")}

Libraries ==
    {[import |-> "resolves", obfuscate |-> "returns", code |-> c, thrown |-> Thrown(FALSE, "")] :
        c \in {"", "var _0x1;"}}
    \cup {[import |-> i, obfuscate |-> "throws", code |-> "", thrown |-> e] :
            i \in {"resolves", "rejects"}, e \in Throwables}

ObfuscatorInputs ==
    [source : {"var a = 1;"}, options : ObfuscatorOptionSets, library : Libraries]

InitObfuscator ==
    /\ mIn \in ObfuscatorInputs
    /\ mOut = [ran |-> FALSE]
    /\ PipelineIdle

CallObfuscator ==
    /\ ~mOut.ran
    /\ LET r == obfuscateCode(mIn.source, mIn.options, mIn.library)
       IN mOut' = [ran |-> TRUE, settled |-> r.settled, config |-> r.config, result |-> r.result]
    /\ UNCHANGED <<options, source, code, transformsApplied, errors, changed, passes,
                   stringResult, trace, pc, rsIn, rsOut, mIn, run, first, ui>>

NextObfuscator == CallObfuscator

SpecObfuscator == InitObfuscator /\ [][NextObfuscator]_vars

\* Properties of obfuscateCode

LibraryFails(library) == library.import = "rejects" \/ library.obfuscate = "throws"

\* C30: obfuscateCode never rejects; when loading or running the library
\* throws, the record has the empty string as code and a non-empty error;
\* when it succeeds the record has no error field; the library gets the
\* threshold 0.75 when controlFlowFlattening is on and 0 otherwise, and the
\* empty list for the encoding 'none'.
C30_ObfuscateCodeResolves ==
    mOut.ran =>
        /\ mOut.settled = "resolved"
        /\ LibraryFails(mIn.library) =>
              /\ mOut.result.code = ""
              /\ mOut.result.hasError
              /\ mOut.result.error # ""
        /\ ~LibraryFails(mIn.library) =>
              /\ ~mOut.result.hasError
              /\ mOut.result.code = mIn.library.code
        /\ mOut.config # NoConfig =>
              /\ mOut.config.controlFlowFlatteningThreshold
                    = IF mIn.options.controlFlowFlattening THEN 75 ELSE 0
              /\ mOut.config.stringArrayEncoding = <<>>
                    <=> mIn.options.stringArrayEncoding = "none"
              /\ mIn.options.stringArrayEncoding # "none" =>
                    mOut.config.stringArrayEncoding = <<mIn.options.stringArrayEncoding>>

\* obfuscate threw an Error with an empty message, called with the encoding
\* 'none' and flattening on
C30_Witness ==
    /\ mOut.ran
    /\ mIn.library.import = "resolves"
    /\ mIn.library.obfuscate = "throws"
    /\ mIn.library.thrown = Thrown(TRUE, "")
    /\ mIn.options.stringArrayEncoding = "none"
    /\ mIn.options.controlFlowFlattening
    /\ mOut.config.stringArrayEncoding = <<>>
    /\ mOut.config.controlFlowFlatteningThreshold = 75
    /\ mOut.result = [code |-> "", hasError |-> TRUE, error |-> "Obfuscation failed"]

====
